---- MODULE Spec2Model ----
(***************************************************************************)
(* Model of osmclient's status poller, osmclient/common/wait.py:           *)
(* wait_for_status and its helpers.                                        *)
(*                                                                         *)
(* Text (HTTP bodies, messages, lines written to stderr) is a sequence of  *)
(* tokens; its concatenation is \o.  A decoded JSON value / Python value   *)
(* is a tagged record:                                                     *)
(*   [t |-> "None"]                     None                               *)
(*   [t |-> "str",  s |-> token]        a string ("" is the empty string)  *)
(*   [t |-> "dict", items |-> <<[k |-> key, v |-> value], ...>>]           *)
(* Status payloads follow the data model of the status endpoint: a JSON    *)
(* object whose members are strings or (for _admin) a nested object.       *)
(***************************************************************************)
EXTENDS Integers, Sequences, FiniteSets, TLC

(* The state of the code that runs. Under Spec and ClassifySpec it is the
   frame of one call of wait_for_status; under DeleteErrorSpec the frame
   of one call of _has_delete_error; under NsSpec one Ns object and the
   frames of the method calls of two threads; under PairSpec the frames of two calls
   of wait_for_status and the sys.stderr they share. *)
VARIABLES ws

vars == <<ws>>

(* ------------------------------------------------------------------ *)
(* Program constants                                                  *)
(* ------------------------------------------------------------------ *)
POLLING_TIME_INTERVAL == 1

MAX_DELETE_ATTEMPTS == 3

(* Bound of the model: the largest time budget a session is started with. *)
MaxTimeout == 4

(* ------------------------------------------------------------------ *)
(* Python values                                                      *)
(* ------------------------------------------------------------------ *)
PyNone == [t |-> "None"]

PyString(s) == [t |-> "str", s |-> s]

PyDict(items) == [t |-> "dict", items |-> items]

(* Python truth value of a decoded value: None, '' and {} are false. *)
Truthy(v) ==
    CASE v.t = "None" -> FALSE
      [] v.t = "str"  -> v.s # ""
      [] v.t = "dict" -> v.items # <<>>

RECURSIVE ItemsGet(_, _, _, _)
ItemsGet(items, i, key, default) ==
    IF i > Len(items) THEN default
    ELSE IF items[i].k = key THEN items[i].v
    ELSE ItemsGet(items, i + 1, key, default)

(* dict.get(key, default) *)
DictGet(d, key, default) == ItemsGet(d.items, 1, key, default)

(* d[key] = v on the item list of a dict: a present key keeps its place. *)
ItemsSet(items, key, v) ==
    IF \E i \in 1..Len(items) : items[i].k = key
    THEN [i \in 1..Len(items) |->
             IF items[i].k = key THEN [k |-> key, v |-> v] ELSE items[i]]
    ELSE Append(items, [k |-> key, v |-> v])

(* ------------------------------------------------------------------ *)
(* json.loads on token text                                           *)
(* ------------------------------------------------------------------ *)
DQ == "\""

SQ == "'"

Punctuation == {DQ, "{", "}", ":", ": ", ",", ", "}

IsColon(tok) == tok \in {":", ": "}

IsComma(tok) == tok \in {",", ", "}

ParseFail == [ok |-> FALSE, val |-> PyNone, next |-> 0]

(* A JSON string starting at toks[i] = DQ: "" or one word between quotes. *)
ParseString(toks, i) ==
    IF i + 1 <= Len(toks) /\ toks[i + 1] = DQ
    THEN [ok |-> TRUE, val |-> PyString(""), next |-> i + 2]
    ELSE IF i + 2 <= Len(toks) /\ toks[i + 1] \notin Punctuation /\ toks[i + 2] = DQ
    THEN [ok |-> TRUE, val |-> PyString(toks[i + 1]), next |-> i + 3]
    ELSE ParseFail

RECURSIVE ParseValue(_, _)
RECURSIVE ParseMembers(_, _, _)

(* The members of an object, toks[i] being the first token of a member. *)
ParseMembers(toks, i, acc) ==
    IF i > Len(toks) \/ toks[i] # DQ THEN ParseFail
    ELSE LET key == ParseString(toks, i) IN
         IF ~key.ok \/ key.next > Len(toks) \/ ~IsColon(toks[key.next])
         THEN ParseFail
         ELSE LET val == ParseValue(toks, key.next + 1) IN
              IF ~val.ok \/ val.next > Len(toks) THEN ParseFail
              ELSE LET items == ItemsSet(acc, key.val.s, val.val) IN
                   IF toks[val.next] = "}"
                   THEN [ok |-> TRUE, val |-> PyDict(items), next |-> val.next + 1]
                   ELSE IF IsComma(toks[val.next])
                   THEN ParseMembers(toks, val.next + 1, items)
                   ELSE ParseFail

ParseValue(toks, i) ==
    IF i > Len(toks) THEN ParseFail
    ELSE IF toks[i] = DQ THEN ParseString(toks, i)
    ELSE IF toks[i] = "{"
    THEN IF i + 1 <= Len(toks) /\ toks[i + 1] = "}"
         THEN [ok |-> TRUE, val |-> PyDict(<<>>), next |-> i + 2]
         ELSE ParseMembers(toks, i + 1, <<>>)
    ELSE ParseFail

(* json.loads(text): ok with the decoded value, or not ok (ValueError). *)
JsonLoads(text) ==
    LET r == ParseValue(text, 1) IN
    IF r.ok /\ r.next = Len(text) + 1 THEN [ok |-> TRUE, val |-> r.val]
    ELSE [ok |-> FALSE, val |-> PyNone]

(* ------------------------------------------------------------------ *)
(* str() and repr() of Python values, as token text                   *)
(* ------------------------------------------------------------------ *)
RECURSIVE PyRepr(_)
RECURSIVE ReprItems(_, _)

ReprItems(items, i) ==
    IF i > Len(items) THEN <<>>
    ELSE (IF i > 1 THEN <<", ">> ELSE <<>>)
         \o <<SQ, items[i].k, SQ, ": ">> \o PyRepr(items[i].v)
         \o ReprItems(items, i + 1)

PyRepr(v) ==
    CASE v.t = "None" -> <<"None">>
      [] v.t = "str"  -> IF v.s = "" THEN <<SQ, SQ>> ELSE <<SQ, v.s, SQ>>
      [] v.t = "dict" -> <<"{">> \o ReprItems(v.items, 1) \o <<"}">>

(* str(v): a string is its own text, anything else its repr. *)
PyStr(v) ==
    IF v.t = "str" THEN (IF v.s = "" THEN <<>> ELSE <<v.s>>) ELSE PyRepr(v)

Digit(d) ==
    CASE d = 0 -> "0" [] d = 1 -> "1" [] d = 2 -> "2" [] d = 3 -> "3"
      [] d = 4 -> "4" [] d = 5 -> "5" [] d = 6 -> "6" [] d = 7 -> "7"
      [] d = 8 -> "8" [] d = 9 -> "9"

RECURSIVE IntStr(_)
(* '{}'.format(n) for an integer n >= 0: its decimal digits. *)
IntStr(n) == IF n < 10 THEN <<Digit(n)>> ELSE IntStr(n \div 10) \o <<Digit(n % 10)>>

(* sub occurs in text as a contiguous run of tokens *)
Contains(text, sub) ==
    \E i \in 0..(Len(text) - Len(sub)) :
        \A j \in 1..Len(sub) : text[i + j] = sub[j]

(* ------------------------------------------------------------------ *)
(* Helpers of wait.py                                                 *)
(* ------------------------------------------------------------------ *)
Entities == {"NS", "NSI", "SDNC", "VIM", "WIM"}

(* Mutant of _get_finished_states: ERROR is not a finished state. *)
_get_finished_states_NoError(entity) ==
    IF entity = "NS" \/ entity = "NSI"
    THEN {"COMPLETED", "PARTIALLY_COMPLETED", "FAILED_TEMP", "FAILED"}
    ELSE {"ENABLED"}

(* Mutant of _get_finished_states: FAILED_TEMP is not a finished state. *)
_get_finished_states_NoFailedTemp(entity) ==
    IF entity = "NS" \/ entity = "NSI"
    THEN {"COMPLETED", "PARTIALLY_COMPLETED", "FAILED"}
    ELSE {"ENABLED", "ERROR"}

(* Mutant of _get_finished_states: ERROR is a finished state of NS and
   NSI as well. *)
_get_finished_states_NsError(entity) ==
    IF entity = "NS" \/ entity = "NSI"
    THEN {"COMPLETED", "PARTIALLY_COMPLETED", "FAILED_TEMP", "FAILED", "ERROR"}
    ELSE {"ENABLED", "ERROR"}

_get_finished_states(entity) ==
    IF entity = "NS" \/ entity = "NSI"
    THEN {"COMPLETED", "PARTIALLY_COMPLETED", "FAILED_TEMP", "FAILED"}
    ELSE {"ENABLED", "ERROR"}

_get_operational_state(resp, entity) ==
    IF entity = "NS" \/ entity = "NSI"
    THEN DictGet(resp, "operationState", PyNone)
    ELSE DictGet(DictGet(resp, "_admin", PyDict(<<>>)), "operationalState", PyNone)

(* Mutant of _op_has_finished: a payload without a state counts as pending. *)
_op_has_finished_NoStatePending(resp, entity) ==
    LET finished_states == _get_finished_states(entity) IN
    IF Truthy(resp)
    THEN LET operationalState == _get_operational_state(resp, entity) IN
         IF Truthy(operationalState)
         THEN IF operationalState.s \in finished_states THEN 0 ELSE 1
         ELSE 1
    ELSE -1

(* 0: finished, 1: pending, -1: bad response *)
_op_has_finished(resp, entity) ==
    LET finished_states == _get_finished_states(entity) IN
    IF Truthy(resp)
    THEN LET operationalState == _get_operational_state(resp, entity) IN
         IF Truthy(operationalState)
         THEN IF operationalState.s \in finished_states THEN 0 ELSE 1
         ELSE -1
    ELSE -1

(* Mutant of _get_detailed_status: the field is read at the top level
   for every kind. *)
_get_detailed_status_TopLevel(resp, entity, detailed_status_deleted) ==
    IF Truthy(detailed_status_deleted) THEN detailed_status_deleted
    ELSE DictGet(resp, "detailed-status", PyNone)

_get_detailed_status(resp, entity, detailed_status_deleted) ==
    IF Truthy(detailed_status_deleted) THEN detailed_status_deleted
    ELSE IF entity = "NS" \/ entity = "NSI"
    THEN DictGet(resp, "detailed-status", PyNone)
    ELSE DictGet(DictGet(resp, "_admin", PyDict(<<>>)), "detailed-status", PyNone)

(* Mutant of _has_delete_error: the last attempt of the budget is not
   used for a retry. *)
_has_delete_error_LastAttempt(resp, entity, deleteFlag, delete_attempts_left) ==
    IF deleteFlag /\ delete_attempts_left > 1
    THEN LET state == _get_operational_state(resp, entity) IN
         Truthy(state) /\ state = PyString("ERROR")
    ELSE FALSE

(* Mutant of _has_delete_error: the retry does not depend on the
   session being a deletion. *)
_has_delete_error_AnySession(resp, entity, deleteFlag, delete_attempts_left) ==
    IF delete_attempts_left # 0
    THEN LET state == _get_operational_state(resp, entity) IN
         Truthy(state) /\ state = PyString("ERROR")
    ELSE FALSE

(* Mutant of _has_delete_error: the count of attempts left is not
   tested. *)
_has_delete_error_IgnoresCount(resp, entity, deleteFlag, delete_attempts_left) ==
    IF deleteFlag
    THEN LET state == _get_operational_state(resp, entity) IN
         Truthy(state) /\ state = PyString("ERROR")
    ELSE FALSE

(* "if deleteFlag and delete_attempts_left": an integer is true when not 0. *)
_has_delete_error(resp, entity, deleteFlag, delete_attempts_left) ==
    IF deleteFlag /\ delete_attempts_left # 0
    THEN LET state == _get_operational_state(resp, entity) IN
         Truthy(state) /\ state = PyString("ERROR")
    ELSE FALSE

(* Mutant of ShowWrites: the new value is not compared with the old one. *)
ShowWrites_Always(old_detailed_status, new_detailed_status) ==
    new_detailed_status # PyNone

(* Whether _show_detailed_status writes its line to stderr. *)
ShowWrites(old_detailed_status, new_detailed_status) ==
    new_detailed_status # PyNone /\ new_detailed_status # old_detailed_status

(* The line _show_detailed_status writes. *)
ShowLine(new_detailed_status) ==
    <<"detailed-status: ">> \o PyStr(new_detailed_status) \o <<"\n">>

(* The value _show_detailed_status returns. *)
_show_detailed_status(old_detailed_status, new_detailed_status) ==
    IF ShowWrites(old_detailed_status, new_detailed_status)
    THEN new_detailed_status
    ELSE old_detailed_status

(* ------------------------------------------------------------------ *)
(* Exceptions                                                         *)
(* ------------------------------------------------------------------ *)
NoException == [type |-> "none", message |-> <<>>]

ClientException(message) == [type |-> "ClientException", message |-> message]

(* What json.loads raises on a text that is no JSON document. *)
ValueError == [type |-> "ValueError", message |-> <<"Expecting value: line 1 column 1 (char 0)">>]

(* exc.message of a ClientException: the text it was raised with. *)
ExcMessage(exc) == exc.message

ProtocolMessage(resp) == PyStr(resp)

MalformedMessage(resp) ==
    <<"unexpected response from server - ">> \o PyStr(resp) \o <<" ">>

TimeoutMessage(timeout) ==
    <<"operation timeout, waited for ">> \o IntStr(timeout) \o <<" seconds">>

(* Mutant of WrapMessage: the entity kind is left out of the message. *)
WrapMessage_NoKind(entity_label, exc) ==
    <<"Operation failed", ":\nerror:\n">> \o ExcMessage(exc)

WrapMessage(entity_label, exc) ==
    <<"Operation failed for ">> \o <<entity_label>> \o <<":\nerror:\n">>
    \o ExcMessage(exc)

(* ------------------------------------------------------------------ *)
(* What the fetch callback (http_cmd) may answer                      *)
(* ------------------------------------------------------------------ *)
HttpCodes == {200, 201, 202, 204, 404, 500}

AcceptedCodes == {200, 201, 202, 204}

Absent == "<absent>"

JsonString(s) == IF s = "" THEN <<DQ, DQ>> ELSE <<DQ, s, DQ>>

(* The members "state" and "detailed-status" of a status object, each one
   left out when Absent. *)
StatusObject(stateKey, state, ds) ==
    <<"{">>
    \o (IF state = Absent THEN <<>>
        ELSE JsonString(stateKey) \o <<": ">> \o JsonString(state))
    \o (IF state # Absent /\ ds # Absent THEN <<", ">> ELSE <<>>)
    \o (IF ds = Absent THEN <<>>
        ELSE JsonString("detailed-status") \o <<": ">> \o JsonString(ds))
    \o <<"}">>

(* Body of an NS / NSI operation: the members are at the top level. *)
NsBody(state, ds) == StatusObject("operationState", state, ds)

(* Body of an SDNC / VIM / WIM account: the members are under _admin. *)
AdminBody(state, ds) ==
    <<"{">> \o JsonString("_admin") \o <<": ">>
    \o StatusObject("operationalState", state, ds) \o <<"}">>

NsStates == {Absent, "PROCESSING", "COMPLETED", "ERROR"}

AdminStates == {Absent, "PROCESSING", "ENABLED", "ERROR"}

(* A detailed-status is free text; "Deleted" is the one text the session
   itself also reports (line 129). *)
DetailedStatuses == {Absent, "Deleted"}

EmptyBody == <<>>

NotJsonBody == <<"internal error">>

Bodies ==
    {EmptyBody, NotJsonBody}
    \cup {NsBody(st, ds) : st \in NsStates, ds \in DetailedStatuses}
    \cup {AdminBody(st, ds) : st \in AdminStates, ds \in DetailedStatuses}
    \cup {NsBody("PROCESSING", ""), AdminBody("PROCESSING", "")}

(* ------------------------------------------------------------------ *)
(* wait_for_status: the session and its steps                         *)
(* ------------------------------------------------------------------ *)
(* The locals of one call, its position (pc), what it has done so far
   (fetches, sleeps, stderr, wraps, error_retries: the decrements of line
   147) and, for the poll cycle under way, whether the payload was
   classified and whether a line was written. *)
NewSession(entity_label, timeout, deleteFlag) ==
    [ entity_label            |-> entity_label,
      timeout                 |-> timeout,
      deleteFlag              |-> deleteFlag,
      time_left               |-> timeout,
      detailed_status         |-> PyNone,
      detailed_status_deleted |-> PyNone,
      time_to_return          |-> FALSE,
      delete_attempts_left    |-> MAX_DELETE_ATTEMPTS,
      http_code               |-> 0,
      resp_unicode            |-> <<>>,
      resp                    |-> PyString(""),
      op_status               |-> 1,
      new_detailed_status     |-> PyNone,
      pc                      |-> "fetch",
      exc                     |-> NoException,
      raised                  |-> NoException,
      fetches                 |-> 0,
      sleeps                  |-> 0,
      stderr                  |-> <<>>,
      wraps                   |-> 0,
      error_retries           |-> 0,
      classified              |-> FALSE,
      emitted                 |-> FALSE,
      always                  |-> [pending |-> TRUE, error |-> TRUE, done |-> TRUE] ]

(* What the poll cycles so far have all been: answered with an accepted
   code and a payload that is pending / whose state is ERROR / that is
   finished in a state other than ERROR. *)
Observe(always, entity_label, code, decoded) ==
    LET good  == code \in AcceptedCodes /\ decoded.ok /\ Truthy(decoded.val)
        state == IF good THEN _get_operational_state(decoded.val, entity_label)
                 ELSE PyNone
        class == IF good THEN _op_has_finished(decoded.val, entity_label) ELSE -1 IN
    [ pending |-> always.pending /\ class = 1,
      error   |-> always.error /\ state = PyString("ERROR"),
      done    |-> always.done /\ class = 0 /\ state # PyString("ERROR") ]

(* Lines 118-121: one call of http_cmd, then the body is decoded. A body
   that is no JSON document makes json.loads raise ValueError, which the
   handler of line 172 does not catch. *)
DoFetch(s, code, body) ==
    LET decoded == IF body # <<>> THEN JsonLoads(body)
                   ELSE [ok |-> TRUE, val |-> PyString("")]
        t == [s EXCEPT !.http_code = code, !.resp_unicode = body,
                       !.fetches = @ + 1,
                       !.classified = FALSE, !.emitted = FALSE,
                       !.always = Observe(@, s.entity_label, code, decoded)] IN
    IF body # <<>>
    THEN LET r == JsonLoads(body) IN
         IF r.ok THEN [t EXCEPT !.resp = r.val, !.pc = "check"]
         ELSE [t EXCEPT !.resp = PyString(""), !.exc = ValueError,
                        !.raised = ValueError, !.pc = "raised"]
    ELSE [t EXCEPT !.resp = PyString(""), !.pc = "check"]

(* Mutant of DoCheckHttpCode: 404 passes the check in every session. *)
DoCheckHttpCode_404Accepted(s) ==
    IF s.deleteFlag /\ s.http_code = 404
    THEN [s EXCEPT !.time_to_return = TRUE,
                   !.detailed_status_deleted = PyString("Deleted"),
                   !.pc = "classify"]
    ELSE IF s.http_code \notin (AcceptedCodes \cup {404})
    THEN [s EXCEPT !.exc = ClientException(ProtocolMessage(s.resp)),
                   !.raised = ClientException(ProtocolMessage(s.resp)),
                   !.pc = "except"]
    ELSE [s EXCEPT !.pc = "classify"]

(* Lines 125-131 *)
DoCheckHttpCode(s) ==
    IF s.deleteFlag /\ s.http_code = 404
    THEN [s EXCEPT !.time_to_return = TRUE,
                   !.detailed_status_deleted = PyString("Deleted"),
                   !.pc = "classify"]
    ELSE IF s.http_code \notin AcceptedCodes
    THEN [s EXCEPT !.exc = ClientException(ProtocolMessage(s.resp)),
                   !.raised = ClientException(ProtocolMessage(s.resp)),
                   !.pc = "except"]
    ELSE [s EXCEPT !.pc = "classify"]

(* Mutant of OnFinished: the returning delete cycle does not decrement. *)
OnFinished_NoFinalDecrement(s) ==
    IF _has_delete_error(s.resp, s.entity_label, s.deleteFlag, s.delete_attempts_left)
    THEN [s EXCEPT !.delete_attempts_left = @ - 1,
                   !.error_retries = @ + 1]
    ELSE IF s.deleteFlag
    THEN IF s.delete_attempts_left < MAX_DELETE_ATTEMPTS
         THEN [s EXCEPT !.time_to_return = TRUE]
         ELSE [s EXCEPT !.delete_attempts_left = @ - 1]
    ELSE [s EXCEPT !.time_to_return = TRUE]

(* Mutant of OnFinished: a delete session returns on a finished payload
   even with the retry budget untouched. *)
OnFinished_ReturnsAtOnce(s) ==
    IF _has_delete_error(s.resp, s.entity_label, s.deleteFlag, s.delete_attempts_left)
    THEN [s EXCEPT !.delete_attempts_left = @ - 1,
                   !.error_retries = @ + 1]
    ELSE IF s.deleteFlag
    THEN [s EXCEPT !.time_to_return = TRUE,
                   !.delete_attempts_left = @ - 1]
    ELSE [s EXCEPT !.time_to_return = TRUE]

(* Mutant of OnFinished: an exhausted budget does not mark the return. *)
OnFinished_NoReturnAtZero(s) ==
    IF _has_delete_error(s.resp, s.entity_label, s.deleteFlag, s.delete_attempts_left)
    THEN [s EXCEPT !.delete_attempts_left = @ - 1,
                   !.error_retries = @ + 1]
    ELSE IF s.deleteFlag
    THEN [s EXCEPT !.time_to_return =
                       IF /\ 0 < s.delete_attempts_left
                          /\ s.delete_attempts_left < MAX_DELETE_ATTEMPTS
                       THEN TRUE ELSE @,
                   !.delete_attempts_left = @ - 1]
    ELSE [s EXCEPT !.time_to_return = TRUE]

(* Lines 146-155: a payload classified as finished *)
OnFinished(s) ==
    IF _has_delete_error(s.resp, s.entity_label, s.deleteFlag, s.delete_attempts_left)
    THEN [s EXCEPT !.delete_attempts_left = @ - 1,
                   !.error_retries = @ + 1]
    ELSE IF s.deleteFlag
    THEN [s EXCEPT !.time_to_return =
                       IF s.delete_attempts_left < MAX_DELETE_ATTEMPTS
                       THEN TRUE ELSE @,
                   !.delete_attempts_left = @ - 1]
    ELSE [s EXCEPT !.time_to_return = TRUE]

(* Lines 132-155 *)
DoClassify(s) ==
    IF ~s.time_to_return
    THEN LET op_status == _op_has_finished(s.resp, s.entity_label)
             t == [s EXCEPT !.op_status = op_status, !.classified = TRUE] IN
         IF op_status = -1
         THEN [t EXCEPT !.exc = ClientException(MalformedMessage(s.resp)),
                        !.raised = ClientException(MalformedMessage(s.resp)),
                        !.pc = "except"]
         ELSE IF op_status = 0
         THEN [OnFinished(t) EXCEPT !.pc = "report"]
         ELSE [t EXCEPT !.pc = "report"]
    ELSE [s EXCEPT !.pc = "report"]

(* Lines 156-164 *)
DoReport(s) ==
    LET got == _get_detailed_status(s.resp, s.entity_label, s.detailed_status_deleted)
        new_detailed_status == IF ~Truthy(got) THEN PyString("In progress") ELSE got
        writes == ShowWrites(s.detailed_status, new_detailed_status) IN
    [s EXCEPT !.new_detailed_status = new_detailed_status,
              !.detailed_status = _show_detailed_status(@, new_detailed_status),
              !.stderr = IF writes THEN Append(@, ShowLine(new_detailed_status)) ELSE @,
              !.emitted = writes,
              !.pc = "decide"]

(* Mutant of DoReturnOrSleep: an exhausted budget also ends the call with a
   return. *)
DoReturnOrSleep_ReturnsOnExpiry(s) ==
    IF s.time_to_return \/ s.time_left <= POLLING_TIME_INTERVAL
    THEN [s EXCEPT !.pc = "returned"]
    ELSE [s EXCEPT !.time_left = @ - POLLING_TIME_INTERVAL,
                   !.sleeps = @ + 1,
                   !.pc = "timeout_check"]

(* Mutant of DoReturnOrSleep: the budget is looked at before the return. *)
DoReturnOrSleep_SleepFirst(s) ==
    IF s.time_to_return /\ s.time_left - POLLING_TIME_INTERVAL > 0
    THEN [s EXCEPT !.pc = "returned"]
    ELSE [s EXCEPT !.time_left = @ - POLLING_TIME_INTERVAL,
                   !.sleeps = @ + 1,
                   !.pc = "timeout_check"]

(* Mutant of DoReturnOrSleep: the sleep does not use up the time budget. *)
DoReturnOrSleep_NoDecrement(s) ==
    IF s.time_to_return
    THEN [s EXCEPT !.pc = "returned"]
    ELSE [s EXCEPT !.sleeps = @ + 1,
                   !.pc = "timeout_check"]

(* Lines 165-168 *)
DoReturnOrSleep(s) ==
    IF s.time_to_return
    THEN [s EXCEPT !.pc = "returned"]
    ELSE [s EXCEPT !.time_left = @ - POLLING_TIME_INTERVAL,
                   !.sleeps = @ + 1,
                   !.pc = "timeout_check"]

(* Mutant of DoCheckTimeout: a budget of exactly 0 is not yet a timeout. *)
DoCheckTimeout_Strict(s) ==
    IF s.time_left < 0
    THEN [s EXCEPT !.exc = ClientException(TimeoutMessage(s.timeout)),
                   !.raised = ClientException(TimeoutMessage(s.timeout)),
                   !.pc = "except"]
    ELSE [s EXCEPT !.pc = "fetch"]

(* Mutant of DoCheckTimeout: the error carries the remaining budget. *)
DoCheckTimeout_Remaining(s) ==
    IF s.time_left <= 0
    THEN [s EXCEPT !.exc = ClientException(TimeoutMessage(s.time_left)),
                   !.raised = ClientException(TimeoutMessage(s.time_left)),
                   !.pc = "except"]
    ELSE [s EXCEPT !.pc = "fetch"]

(* Lines 169-171, and the loop back to line 118 *)
DoCheckTimeout(s) ==
    IF s.time_left <= 0
    THEN [s EXCEPT !.exc = ClientException(TimeoutMessage(s.timeout)),
                   !.raised = ClientException(TimeoutMessage(s.timeout)),
                   !.pc = "except"]
    ELSE [s EXCEPT !.pc = "fetch"]

(* Lines 172-176: the handler of ClientException *)
DoExcept(s) ==
    [s EXCEPT !.exc = ClientException(WrapMessage(s.entity_label, s.exc)),
              !.wraps = @ + 1,
              !.pc = "raised"]

(* ------------------------------------------------------------------ *)
(* The state machine                                                  *)
(* ------------------------------------------------------------------ *)
Timeouts == 1..MaxTimeout

Init ==
    \E entity_label \in Entities, timeout \in Timeouts, deleteFlag \in BOOLEAN :
        ws = NewSession(entity_label, timeout, deleteFlag)

Fetch ==
    /\ ws.pc = "fetch"
    /\ \E code \in HttpCodes, body \in Bodies : ws' = DoFetch(ws, code, body)

CheckHttpCode == ws.pc = "check" /\ ws' = DoCheckHttpCode(ws)

Classify == ws.pc = "classify" /\ ws' = DoClassify(ws)

Report == ws.pc = "report" /\ ws' = DoReport(ws)

ReturnOrSleep == ws.pc = "decide" /\ ws' = DoReturnOrSleep(ws)

CheckTimeout == ws.pc = "timeout_check" /\ ws' = DoCheckTimeout(ws)

Except == ws.pc = "except" /\ ws' = DoExcept(ws)

Next ==
    \/ Fetch
    \/ CheckHttpCode
    \/ Classify
    \/ Report
    \/ ReturnOrSleep
    \/ CheckTimeout
    \/ Except

Spec == Init /\ [][Next]_vars

(* ------------------------------------------------------------------ *)
(* The first poll cycle over every state value of the data model      *)
(* ------------------------------------------------------------------ *)
WideNsStates ==
    {Absent, "", "PROCESSING", "COMPLETED", "PARTIALLY_COMPLETED", "FAILED_TEMP",
     "FAILED", "ROLLING_BACK", "ROLLED_BACK", "ERROR", "ENABLED"}

WideAdminStates ==
    {Absent, "", "ENABLED", "DISABLED", "ERROR", "PROCESSING", "COMPLETED"}

WideBodies ==
    {EmptyBody}
    \cup {NsBody(st, ds) : st \in WideNsStates, ds \in DetailedStatuses}
    \cup {AdminBody(st, ds) : st \in WideAdminStates, ds \in DetailedStatuses}

(* A session whose first fetch was answered with 200 and one of these
   bodies, about to classify the payload. *)
ClassifyInit ==
    \E entity_label \in Entities, timeout \in Timeouts, deleteFlag \in BOOLEAN,
       body \in WideBodies :
        ws = DoCheckHttpCode(
                 DoFetch(NewSession(entity_label, timeout, deleteFlag), 200, body))

(* The rest of that cycle. *)
ClassifyNext ==
    \/ Classify
    \/ Report
    \/ ReturnOrSleep
    \/ CheckTimeout
    \/ Except

ClassifySpec == ClassifyInit /\ [][ClassifyNext]_vars

Terminated == ws.pc \in {"returned", "raised"}

(* ------------------------------------------------------------------ *)
(* One call of _has_delete_error                                      *)
(* ------------------------------------------------------------------ *)
(* Decoded status objects. *)
Payloads == {JsonLoads(body).val : body \in WideBodies \ {EmptyBody}}

(* The values of the local delete_attempts_left at the call of line 146:
   it starts at MAX_DELETE_ATTEMPTS, goes down by one per classified
   cycle, and the call that finds 0 is the last one of the session. *)
AttemptCounts == 0..MAX_DELETE_ATTEMPTS

(* The frame of a call: its arguments, and the value returned once the
   call is over. *)
DeleteErrorInit ==
    \E resp \in Payloads, entity \in Entities, deleteFlag \in BOOLEAN,
       delete_attempts_left \in AttemptCounts :
        ws = [ pc                   |-> "call",
               resp                 |-> resp,
               entity               |-> entity,
               deleteFlag           |-> deleteFlag,
               delete_attempts_left |-> delete_attempts_left,
               result               |-> FALSE ]

HasDeleteError ==
    /\ ws.pc = "call"
    /\ ws' = [ws EXCEPT !.result = _has_delete_error(ws.resp, ws.entity, ws.deleteFlag,
                                                     ws.delete_attempts_left),
                        !.pc = "done"]

DeleteErrorSpec == DeleteErrorInit /\ [][HasDeleteError]_vars

(* ------------------------------------------------------------------ *)
(* Two calls of wait_for_status in two threads of one process         *)
(* ------------------------------------------------------------------ *)
PairTimeout == 2

(* The step of wait_for_status a call at s.pc takes; answer is what
   http_cmd returns when the step is the fetch. *)
SessionStep(s, answer) ==
    CASE s.pc = "fetch"         -> DoFetch(s, answer.http_code, answer.resp_unicode)
      [] s.pc = "check"         -> DoCheckHttpCode(s)
      [] s.pc = "classify"      -> DoClassify(s)
      [] s.pc = "report"        -> DoReport(s)
      [] s.pc = "decide"        -> DoReturnOrSleep(s)
      [] s.pc = "timeout_check" -> DoCheckTimeout(s)
      [] s.pc = "except"        -> DoExcept(s)
      [] OTHER                  -> s

Sessions == {"a", "b"}

(* One thread: the frame of its call (the arguments, the locals of lines
   111-115 and the position in the code) and the answers http_cmd gave
   it. *)
Thread(entity_label, timeout, deleteFlag) ==
    [ frame   |-> NewSession(entity_label, timeout, deleteFlag),
      answers |-> <<>> ]

(* Mutant of PairStep: the last reported status is kept in one place for
   the whole process instead of in a local of each call. *)
PairStep_SharedStatus(pair, who, answer) ==
    LET me    == pair[who]
        other == CHOOSE x \in Sessions : x # who
        f     == SessionStep(me.frame, answer)
        wrote == Len(f.stderr) > Len(me.frame.stderr) IN
    [pair EXCEPT
        ![who] = [ frame   |-> f,
                   answers |-> IF me.frame.pc = "fetch"
                               THEN Append(me.answers, answer) ELSE me.answers ],
        ![other].frame.detailed_status = f.detailed_status,
        !.stderr = IF wrote
                   THEN Append(@, [who |-> who, line |-> f.stderr[Len(f.stderr)]])
                   ELSE @]

(* One step of the call of thread who. Every variable the step reads or
   writes is a local of that call; the one object of the process it
   touches is sys.stderr, to which a progress line is appended. *)
PairStep(pair, who, answer) ==
    LET me    == pair[who]
        f     == SessionStep(me.frame, answer)
        wrote == Len(f.stderr) > Len(me.frame.stderr) IN
    [pair EXCEPT
        ![who] = [ frame   |-> f,
                   answers |-> IF me.frame.pc = "fetch"
                               THEN Append(me.answers, answer) ELSE me.answers ],
        !.stderr = IF wrote
                   THEN Append(@, [who |-> who, line |-> f.stderr[Len(f.stderr)]])
                   ELSE @]

(* What http_cmd answers in either thread. *)
PairAnswers ==
    { [http_code |-> 200, resp_unicode |-> NsBody("PROCESSING", Absent)],
      [http_code |-> 200, resp_unicode |-> NsBody("COMPLETED", "Deleted")],
      [http_code |-> 200, resp_unicode |-> AdminBody("ERROR", Absent)],
      [http_code |-> 404, resp_unicode |-> EmptyBody] }

(* Thread a waits for an NS operation, thread b for a VIM account. *)
PairInit ==
    \E ta \in 1..PairTimeout, tb \in 1..PairTimeout, da \in BOOLEAN, db \in BOOLEAN :
        ws = [ a      |-> Thread("NS", ta, da),
               b      |-> Thread("VIM", tb, db),
               stderr |-> <<>> ]

PairFetch(who) ==
    /\ ws[who].frame.pc = "fetch"
    /\ \E answer \in PairAnswers : ws' = PairStep(ws, who, answer)

PairAdvance(who) ==
    /\ ws[who].frame.pc \notin {"fetch", "returned", "raised"}
    /\ ws' = PairStep(ws, who, <<>>)

PairNext ==
    \/ \E who \in Sessions : PairFetch(who)
    \/ \E who \in Sessions : PairAdvance(who)

PairSpec == PairInit /\ [][PairNext]_vars

(* ------------------------------------------------------------------ *)
(* The NS client, osmclient/sol005/ns.py                              *)
(* ------------------------------------------------------------------ *)
TIMEOUT_NS_OPERATION == 3600

(* Bound of the model: the number of polls of a wait session started by a
   method of Ns that are answered. *)
MaxPolls == 2

(* How a call ended: not yet, with a value, or with an exception. *)
NoOutcome == [kind |-> "none"]

Returned(value) == [kind |-> "returned", value |-> value]

Raised(exc) == [kind |-> "raised", exc |-> exc]

NotFound(message) == [type |-> "NotFound", message |-> message]

(* "except ClientException" also catches its subclass NotFound. *)
IsClientException(exc) == exc.type \in {"ClientException", "NotFound"}

(* Lines 32-40: the object after construction. Its attributes are shared
   by every thread that calls a method of it. *)
Ns__init__ ==
    [ _apiName     |-> "/nslcm",
      _apiVersion  |-> "/v1",
      _apiResource |-> "/ns_instances_content",
      _apiBase     |-> <<"/nslcm", "/v1", "/ns_instances_content">> ]

NoSession == [pc |-> "none"]

(* The frame of the method call of one thread. A call is a sequence of
   steps; each step runs the code from one point where the thread waits
   (for the answer to a request, or in the sleep of a wait session) to
   the next, so that steps of another thread's call on the same object
   fall in between. pc says what the call waits for: "listing" and
   "listing2" for the answer to the request of self.list(), "request" for
   the answer to the request of the method itself, "waiting" for the
   answer to a poll of its wait session, "sleeping" for the end of the
   sleep of that session; "idle" when no call is under way. The methods
   that assign self._apiResource and self._apiBase do so in statements of
   their own, with no lock held, so each access to these attributes is a
   step: after the assignment of self._apiResource the call is at
   "format" (about to read self._apiResource for the format of the next
   statement), then at "assign" (about to store the formatted text,
   kept in formatted, into self._apiBase), then at "send" (about to read
   self._apiBase for the endpoint of its request). ns is the local
   holding the record self.get gave, value the local the call returns
   after its wait session. Of a traced thread the frame also records the
   requests the call sent, the answer whose status code it looked at, the
   wait sessions it started, what it printed and how it ended. *)
Frame(traced) ==
    [ traced   |-> traced,
      op       |-> "none",
      args     |-> <<>>,
      pc       |-> "idle",
      ns       |-> PyNone,
      formatted |-> <<>>,
      value    |-> PyNone,
      session  |-> NoSession,
      requests |-> <<>>,
      answer   |-> [http_code |-> 0, resp |-> <<>>],
      waits    |-> <<>>,
      stdout   |-> <<>>,
      outcome  |-> NoOutcome ]

(* Entry of a method. *)
Call(f, op, args) == [Frame(f.traced) EXCEPT !.op = op, !.args = args, !.pc = "begin"]

(* One command of self._http is sent with the endpoint it is given, and
   the thread waits for its answer at pc. *)
Send(f, method, endpoint, pc) ==
    [f EXCEPT !.requests = IF f.traced
                           THEN Append(@, [method |-> method, endpoint |-> endpoint])
                           ELSE @,
              !.pc = pc]

(* print(line) *)
Say(f, line) == [f EXCEPT !.stdout = IF f.traced THEN Append(@, line) ELSE @]

(* The answer the method branches on. *)
Answered(f, http_code, resp) ==
    [f EXCEPT !.answer = IF f.traced THEN [http_code |-> http_code, resp |-> resp]
                         ELSE @]

(* The call returns or raises; its locals are gone. *)
End(f, outcome) ==
    IF f.traced
    THEN [f EXCEPT !.outcome = outcome, !.pc = "idle", !.ns = PyNone,
                   !.formatted = <<>>, !.value = PyNone, !.session = NoSession]
    ELSE Frame(FALSE)

(* What one step gives: the object and the frame of the stepping thread. *)
Step(self, f) == [self |-> self, frame |-> f]

(* What a step takes in: the decoded answer to a listing request, the
   answer to another request or to a poll, or what
   self._client.vim.get(account) gives. *)
NoInput == [listing |-> <<>>, http_code |-> 0, resp |-> <<>>, vim |-> PyNone]

(* Names and identifiers of NS instances; an identifier is a UUID. *)
NsIds == {"7b1f0f0e-6c5a-4f0e-9d8a-2f3f1c0a9b11"}

NsNames == {"ns1"}

validate_uuid4(name) == name \in NsIds

(* An NS record of a listing. *)
NsRecord(id, name) ==
    PyDict(<< [k |-> "_id", v |-> PyString(id)], [k |-> "name", v |-> PyString(name)] >>)

(* What the listing request is answered with, decoded: a list of NS
   records (an empty body gives the empty list, lines 65-67). *)
Listings == {<<>>} \cup {<<NsRecord(id, name)>> : id \in NsIds, name \in NsNames}

(* A JSON object with string members, as body text. *)
RECURSIVE JsonMembers(_, _)
JsonMembers(pairs, i) ==
    IF i > Len(pairs) THEN <<>>
    ELSE (IF i > 1 THEN <<", ">> ELSE <<>>)
         \o JsonString(pairs[i][1]) \o <<": ">> \o JsonString(pairs[i][2])
         \o JsonMembers(pairs, i + 1)

JsonObject(pairs) == <<"{">> \o JsonMembers(pairs, 1) \o <<"}">>

(* key in d *)
HasKey(d, key) == \E i \in 1..Len(d.items) : d.items[i].k = key

(* A call of wait_for_status up to the next point where it waits: for
   the answer to a poll (pc "fetch"), inside sleep(POLLING_TIME_INTERVAL)
   of line 168 (pc "timeout_check"), or not at all because it has ended. *)
RECURSIVE RunToBlock(_)
RunToBlock(s) ==
    IF s.pc \in {"fetch", "timeout_check", "returned", "raised"} THEN s
    ELSE RunToBlock(SessionStep(s, <<>>))

(* '{}/{}'.format(apiUrlStatus, entity_id), wait.py line 118 *)
PollUrl(started) == started.apiUrlStatus \o <<"/">> \o started.entity_id

(* Lines 43-54. The session the call opens is recorded with its
   arguments; the thread then waits for the answer to its first poll. *)
_wait(self, f, id, deleteFlag) ==
    LET apiUrlStatus == <<self._apiName, self._apiVersion, "/ns_lcm_op_occs">>
        started == [ entity_label |-> "NS",
                     entity_id    |-> PyStr(id),
                     timeout      |-> TIMEOUT_NS_OPERATION,
                     apiUrlStatus |-> apiUrlStatus,
                     http_cmd     |-> "get2_cmd",
                     deleteFlag   |-> deleteFlag ]
        g == [f EXCEPT !.waits = IF f.traced THEN Append(@, started) ELSE @,
                       !.session = NewSession("NS", TIMEOUT_NS_OPERATION, deleteFlag)] IN
    Send(g, "GET", PollUrl(started), "waiting")

(* The session of f has run on to s: its next poll is sent, or the thread
   is inside the sleep, or the session has ended. *)
Polled(f, s) ==
    CASE s.pc = "fetch" ->
            Send([f EXCEPT !.session = s], "GET",
                 IF f.traced THEN PollUrl(f.waits[Len(f.waits)]) ELSE <<>>, "waiting")
      [] s.pc = "timeout_check" -> [f EXCEPT !.session = s, !.pc = "sleeping"]
      [] OTHER -> [f EXCEPT !.session = s]

(* The poll of the session of f is answered: the session runs on to its
   sleep or to its end (lines 118-168). *)
Poll(f, in) == Polled(f, RunToBlock(DoFetch(f.session, in.http_code, in.resp)))

(* The sleep of the session of f is over: the session runs on to its
   next poll, or ends with the timeout (lines 169-176, 118). *)
Wake(f) == Polled(f, RunToBlock(DoCheckTimeout(f.session)))

(* Line 117: g is the frame after a step of the session of delete, which
   runs outside any try. *)
DeleteWaited(self, g) ==
    CASE g.session.pc = "returned" -> Step(self, End(g, Returned(PyNone)))
      [] g.session.pc = "raised"   -> Step(self, End(g, Raised(g.session.exc)))
      [] OTHER                     -> Step(self, g)

(* Lines 56-64: list() up to its request, sent to what self._apiBase is
   at that moment. *)
ListRequest(self, f, filter, pc) ==
    LET filter_string == IF Truthy(filter) THEN <<"?">> \o PyStr(filter) ELSE <<>> IN
    Send(f, "GET", self._apiBase \o filter_string, pc)

(* Lines 56-67 *)
Ns_list(self, f, in) ==
    IF f.pc = "begin"
    THEN Step(self, ListRequest(self, f, f.args[1], "listing"))
    ELSE Step(self, End(f, Returned(in.listing)))

(* Lines 74-81: the first record of the listing with the name or the
   identifier, None when there is none. *)
Lookup(listing, key, name) ==
    LET hits == {i \in 1..Len(listing) :
                    DictGet(listing[i], key, PyNone) = PyString(name)} IN
    IF hits # {} THEN listing[CHOOSE i \in hits : \A j \in hits : i <= j]
    ELSE PyNone

(* Lines 74-82: what get(name) gives once the listing is there. *)
GetFound(name, listing) ==
    LET ns == Lookup(listing, IF validate_uuid4(name) THEN "_id" ELSE "name", name) IN
    IF ns # PyNone THEN Returned(ns)
    ELSE Raised(NotFound(<<"ns '", name, "' not found">>))

(* Lines 69-82 *)
Ns_get(self, f, in) ==
    IF f.pc = "begin"
    THEN Step(self, ListRequest(self, f, PyNone, "listing"))
    ELSE Step(self, End(f, GetFound(f.args[1], in.listing)))

(* Lines 84-101 *)
Ns_get_individual(self, f, in) ==
    LET name == f.args[1] IN
    CASE f.pc = "begin" ->
            IF validate_uuid4(name)
            THEN Step(self, Send(f, "GET", self._apiBase \o <<"/", name>>, "request"))
            ELSE Step(self, ListRequest(self, f, PyNone, "listing"))
      [] f.pc = "listing" ->
            LET ns    == Lookup(in.listing, "name", name)
                ns_id == IF ns # PyNone THEN DictGet(ns, "_id", PyNone).s ELSE name IN
            Step(self, Send(f, "GET", self._apiBase \o <<"/", ns_id>>, "request"))
      [] OTHER ->
            IF in.resp # <<>>
            THEN LET r == JsonLoads(in.resp) IN
                 IF r.ok THEN Step(self, End(f, Returned(r.val)))
                 ELSE Step(self, End(f, Raised(ValueError)))
            ELSE Step(self, End(f, Raised(NotFound(<<"ns '", name, "' not found">>))))

(* Mutant of Ns_delete: the answer 204 is waited for as well. *)
Ns_delete_WaitsOn204(self, f, in) ==
    LET name  == f.args[1]
        force == f.args[2]
        wait  == f.args[3] IN
    CASE f.pc = "begin" -> Step(self, ListRequest(self, f, PyNone, "listing"))
      [] f.pc = "listing" ->
            LET got == GetFound(name, in.listing)
                querystring == IF force THEN <<"?FORCE=True">> ELSE <<>> IN
            IF got.kind = "raised" THEN Step(self, End(f, got))
            ELSE Step(self, Send(f, "DELETE",
                                 self._apiBase \o <<"/">>
                                 \o PyStr(DictGet(got.value, "_id", PyNone))
                                 \o querystring, "request"))
      [] f.pc = "request" ->
            LET g == Answered(f, in.http_code, in.resp) IN
            IF in.http_code = 202 \/ in.http_code = 204
            THEN IF wait /\ in.resp # <<>>
                 THEN LET r == JsonLoads(in.resp) IN
                      IF ~r.ok THEN Step(self, End(g, Raised(ValueError)))
                      ELSE Step(self, _wait(self, g, DictGet(r.val, "_id", PyNone), TRUE))
                 ELSE Step(self, End(Say(g, <<"Deletion in progress">>), Returned(PyNone)))
            ELSE Step(self, End(g, Raised(ClientException(
                                     <<"failed to delete ns ", name, " - ">> \o in.resp))))
      [] f.pc = "waiting" -> DeleteWaited(self, Poll(f, in))
      [] OTHER -> DeleteWaited(self, Wake(f))

(* Lines 103-129 *)
Ns_delete(self, f, in) ==
    LET name  == f.args[1]
        force == f.args[2]
        wait  == f.args[3] IN
    CASE f.pc = "begin" -> Step(self, ListRequest(self, f, PyNone, "listing"))
      [] f.pc = "listing" ->
            LET got == GetFound(name, in.listing)
                querystring == IF force THEN <<"?FORCE=True">> ELSE <<>> IN
            IF got.kind = "raised" THEN Step(self, End(f, got))
            ELSE Step(self, Send(f, "DELETE",
                                 self._apiBase \o <<"/">>
                                 \o PyStr(DictGet(got.value, "_id", PyNone))
                                 \o querystring, "request"))
      [] f.pc = "request" ->
            LET g == Answered(f, in.http_code, in.resp) IN
            IF in.http_code = 202
            THEN IF wait /\ in.resp # <<>>
                 THEN LET r == JsonLoads(in.resp) IN
                      IF ~r.ok THEN Step(self, End(g, Raised(ValueError)))
                      ELSE Step(self, _wait(self, g, DictGet(r.val, "_id", PyNone), TRUE))
                 ELSE Step(self, End(Say(g, <<"Deletion in progress">>), Returned(PyNone)))
            ELSE IF in.http_code = 204
            THEN Step(self, End(Say(g, <<"Deleted">>), Returned(PyNone)))
            ELSE Step(self, End(g, Raised(ClientException(
                                     <<"failed to delete ns ", name, " - ">> \o in.resp))))
      [] f.pc = "waiting" -> DeleteWaited(self, Poll(f, in))
      [] OTHER -> DeleteWaited(self, Wake(f))

(* Lines 224, 268, 306, 340: "self._apiResource = resource", the last
   statement of the step that found ns; the call goes on to the format. *)
AssignResource(self, f, resource, ns) ==
    Step([self EXCEPT !._apiResource = resource],
         [f EXCEPT !.ns = ns, !.pc = "format"])

(* Lines 225-226, 269-270, 307-308, 341-342, right-hand side:
   '{}{}{}'.format(self._apiName, self._apiVersion, self._apiResource),
   with what self._apiResource holds at that moment. *)
FormatBase(self, f) ==
    Step(self, [f EXCEPT !.formatted = <<self._apiName, self._apiVersion,
                                         self._apiResource>>,
                         !.pc = "assign"])

(* The same lines, the store: "self._apiBase = " what was formatted. *)
AssignBase(self, f) ==
    Step([self EXCEPT !._apiBase = f.formatted],
         [f EXCEPT !.formatted = <<>>, !.pc = "send"])

(* "except ClientException as exc: raise ClientException(prefix + str(exc))"
   around the body of a method. *)
Rewrap(exc, prefix) ==
    IF IsClientException(exc) THEN ClientException(prefix \o exc.message)
    ELSE exc

(* Lines 245-246 and 359: the method returns resp['id'], kept in value;
   create prints it first. *)
PostReturn(f, prints) ==
    End(IF prints THEN Say(f, PyStr(f.value)) ELSE f, Returned(f.value))

(* Lines 236-246 and 350-359: the answer to a POST is decoded and must
   hold an 'id'; with wait the session of the operation named by waitKey
   is started. *)
PostAnswer(self, f, resp, wait, waitKey, trailer, prefix, prints) ==
    LET r == IF resp # <<>> THEN JsonLoads(resp) ELSE [ok |-> TRUE, val |-> PyString("")] IN
    IF ~r.ok THEN End(f, Raised(ValueError))
    ELSE IF ~Truthy(r.val) \/ ~HasKey(r.val, "id")
    THEN End(f, Raised(ClientException(prefix \o <<"unexpected response from server - ">>
                                       \o PyStr(r.val) \o trailer)))
    ELSE LET g == [f EXCEPT !.value = DictGet(r.val, "id", PyNone)] IN
         IF wait THEN _wait(self, g, DictGet(r.val, waitKey, PyNone), FALSE)
         ELSE PostReturn(g, prints)

(* Lines 244-246, 255-260 and 358-359, 368-372: g is the frame after a
   step of the session started inside the try of the method. *)
PostWaited(g, prefix, prints) ==
    CASE g.session.pc = "returned" -> PostReturn(g, prints)
      [] g.session.pc = "raised"   -> End(g, Raised(Rewrap(g.session.exc, prefix)))
      [] OTHER                     -> g

(* Lines 131-260. in.vim is what self._client.vim.get(account) gives: None
   makes get_vim_account_id raise NotFound before any request. *)
Ns_create(self, f, in) ==
    LET nsd_name == f.args[1]
        nsr_name == f.args[2]
        account  == f.args[3]
        wait     == f.args[4]
        prefix   == <<"failed to create ns: ", nsr_name, " nsd: ", nsd_name,
                      "\nerror:\n">> IN
    CASE f.pc = "begin" ->
            IF in.vim = PyNone
            THEN Step(self, End(f, Raised(NotFound(
                                    <<"cannot find vim account '", account, "'">>))))
            ELSE AssignResource(self, f, "/ns_instances_content", PyNone)
      [] f.pc = "format" -> FormatBase(self, f)
      [] f.pc = "assign" -> AssignBase(self, f)
      [] f.pc = "send" -> Step(self, Send(f, "POST", self._apiBase, "request"))
      [] f.pc = "request" ->
            Step(self, PostAnswer(self, f, in.resp, wait, "nslcmop_id", <<" ">>,
                                  prefix, TRUE))
      [] f.pc = "waiting" -> Step(self, PostWaited(Poll(f, in), prefix, TRUE))
      [] OTHER -> Step(self, PostWaited(Wake(f), prefix, TRUE))

(* Lines 279-293 and 312-326: the answer to a GET of operations, inside
   the try of the method. *)
GetAnswer(f, http_code, resp, prefix) ==
    LET g == Answered(f, http_code, resp) IN
    IF http_code = 200
    THEN IF resp # <<>>
         THEN LET r == JsonLoads(resp) IN
              IF r.ok THEN End(g, Returned(r.val))
              ELSE End(g, Raised(ValueError))
         ELSE End(g, Raised(ClientException(
                              prefix \o <<"unexpected response from server">>)))
    ELSE End(g, Raised(ClientException(prefix \o resp)))

(* Lines 262-298 *)
Ns_list_op(self, f, in) ==
    LET name == f.args[1] IN
    CASE f.pc = "begin" -> Step(self, ListRequest(self, f, PyNone, "listing"))
      [] f.pc = "listing" ->
            LET got == GetFound(name, in.listing) IN
            IF got.kind = "raised" THEN Step(self, End(f, got))
            ELSE AssignResource(self, f, "/ns_lcm_op_occs", got.value)
      [] f.pc = "format" -> FormatBase(self, f)
      [] f.pc = "assign" -> AssignBase(self, f)
      [] f.pc = "send" ->
            Step(self, Send(f, "GET",
                            self._apiBase \o <<"?nsInstanceId=">>
                            \o PyStr(DictGet(f.ns, "_id", PyNone)), "request"))
      [] OTHER ->
            Step(self, GetAnswer(f, in.http_code, in.resp,
                                 <<"failed to get operation list of NS ", name,
                                   ":\nerror:\n">>))

(* Lines 300-331 *)
Ns_get_op(self, f, in) ==
    LET operationId == f.args[1] IN
    CASE f.pc = "begin" -> AssignResource(self, f, "/ns_lcm_op_occs", PyNone)
      [] f.pc = "format" -> FormatBase(self, f)
      [] f.pc = "assign" -> AssignBase(self, f)
      [] f.pc = "send" ->
            Step(self, Send(f, "GET", self._apiBase \o <<"/", operationId>>, "request"))
      [] OTHER ->
            Step(self, GetAnswer(f, in.http_code, in.resp,
                                 <<"failed to get status of operation ", operationId,
                                   ":\nerror:\n">>))

(* Lines 333-372. The record of the first listing (line 337) is replaced
   by that of the second (line 339), which is asked for inside the try. *)
Ns_exec_op(self, f, in) ==
    LET name    == f.args[1]
        op_name == f.args[2]
        wait    == f.args[3]
        prefix  == <<"failed to exec operation ", name, ":\nerror:\n">> IN
    CASE f.pc = "begin" -> Step(self, ListRequest(self, f, PyNone, "listing"))
      [] f.pc = "listing" ->
            LET got == GetFound(name, in.listing) IN
            IF got.kind = "raised" THEN Step(self, End(f, got))
            ELSE Step(self, ListRequest(self, f, PyNone, "listing2"))
      [] f.pc = "listing2" ->
            LET got == GetFound(name, in.listing) IN
            IF got.kind = "raised"
            THEN Step(self, End(f, Raised(Rewrap(got.exc, prefix))))
            ELSE AssignResource(self, f, "/ns_instances", got.value)
      [] f.pc = "format" -> FormatBase(self, f)
      [] f.pc = "assign" -> AssignBase(self, f)
      [] f.pc = "send" ->
            LET endpoint == self._apiBase \o <<"/">>
                            \o PyStr(DictGet(f.ns, "_id", PyNone))
                            \o <<"/", op_name>> IN
            Step(self, Send(f, "POST", endpoint, "request"))
      [] f.pc = "request" ->
            Step(self, PostAnswer(self, f, in.resp, wait, "id", <<>>, prefix, FALSE))
      [] f.pc = "waiting" -> Step(self, PostWaited(Poll(f, in), prefix, FALSE))
      [] OTHER -> Step(self, PostWaited(Wake(f), prefix, FALSE))

(* Lines 392-396: e is what the step of exec_op gave; when exec_op has
   ended, scale_vnf prints what it returned, or wraps what it raised. *)
ScaleStep(args, e, prefix) ==
    IF e.frame.pc # "idle" THEN Step(e.self, [e.frame EXCEPT !.args = args])
    ELSE IF ~e.frame.traced THEN e
    ELSE IF e.frame.outcome.kind = "returned"
    THEN Step(e.self, [Say(e.frame, PyStr(e.frame.outcome.value))
                          EXCEPT !.args = args, !.outcome = Returned(PyNone)])
    ELSE Step(e.self, [e.frame EXCEPT !.args = args,
                                      !.outcome = Raised(Rewrap(@.exc, prefix))])

(* Lines 374-396: exec_op runs inside the try of scale_vnf. *)
Ns_scale_vnf(self, f, in) ==
    ScaleStep(f.args,
              Ns_exec_op(self, [f EXCEPT !.args = <<f.args[1], "scale", f.args[3]>>], in),
              <<"failed to scale vnf ", f.args[2], " of ns ", f.args[1], ":\nerror:\n">>)

(* Lines 398-425: the answer to the POST is not looked at. *)
Ns_create_alarm(self, f, in) ==
    IF f.pc = "begin"
    THEN Step(self, Send(f, "POST", <<"/test/message/alarm_request">>, "request"))
    ELSE Step(self, End(Say(f, <<"Alarm created">>), Returned(PyNone)))

(* Lines 427-455 *)
Ns_delete_alarm(self, f, in) ==
    IF f.pc = "begin"
    THEN Step(self, Send(f, "POST", <<"/test/message/alarm_request">>, "request"))
    ELSE Step(self, End(Say(f, <<"Alarm deleted">>), Returned(PyNone)))

(* Lines 457-483 *)
Ns_export_metric(self, f, in) ==
    IF f.pc = "begin"
    THEN Step(self, Send(f, "POST", <<"/test/message/metric_request">>, "request"))
    ELSE Step(self, End(f, Returned(PyString("Metric exported"))))

(* yaml.safe_dump of a record whose members are strings: one line
   "key: value" for each member, in the order of the keys. The records of
   Listings hold their members in that order. *)
RECURSIVE YamlLines(_, _)
YamlLines(items, i) ==
    IF i > Len(items) THEN <<>>
    ELSE <<items[i].k, ": ", items[i].v.s, "\n">> \o YamlLines(items, i + 1)

safe_dump(d) == YamlLines(d.items, 1)

(* Lines 487-495: get_field once get(ns_name) has given nsr. *)
FieldOf(f, nsr, ns_name, field) ==
    IF HasKey(nsr, field)
    THEN End(Say(f, safe_dump(nsr)), Returned(DictGet(nsr, field, PyNone)))
    ELSE End(Say(f, safe_dump(nsr)),
             Raised(NotFound(<<"failed to find ", field, " in ns ", ns_name>>)))

(* The listing of get_field is there: got is what get(ns_name) gives. *)
GotField(f, got) ==
    IF got.kind = "raised" THEN End(f, got)
    ELSE FieldOf(f, got.value, f.args[1], f.args[2])

(* Lines 485-495 *)
Ns_get_field(self, f, in) ==
    IF f.pc = "begin"
    THEN Step(self, ListRequest(self, f, PyNone, "listing"))
    ELSE Step(self, GotField(f, GetFound(f.args[1], in.listing)))

(* The status codes the requests of the client are answered with: one
   for every branch of the method that looks at the code. *)
DeleteCodes == {202, 204, 404}

GetCodes == {200, 404}

OpIds == {"op1"}

NsAnswers ==
    {EmptyBody, NotJsonBody}
    \cup {JsonObject(<< <<"_id", op>> >>) : op \in OpIds}
    \cup {JsonObject(<< <<"id", op>>, <<"nslcmop_id", op>> >>) : op \in OpIds}

(* What a poll of a wait session is answered with. *)
PollAnswers ==
    { [NoInput EXCEPT !.http_code = 200, !.resp = NsBody("PROCESSING", Absent)],
      [NoInput EXCEPT !.http_code = 200, !.resp = NsBody("COMPLETED", "Deleted")],
      [NoInput EXCEPT !.http_code = 404, !.resp = EmptyBody],
      [NoInput EXCEPT !.http_code = 200, !.resp = NotJsonBody] }

Filters == {PyNone, PyString("name=ns1")}

Vims == {PyNone, PyDict(<<[k |-> "_id", v |-> PyString("vim1")]>>)}

(* What the step a frame is to take can be given. A POST and the GET of
   get_individual are answered by the body alone: the code does not look
   at their status code. A poll is
   answered while the session has had fewer than MaxPolls answers. The
   end of a sleep and an access to an attribute of the object take
   nothing in. *)
InputsAt(f) ==
    CASE f.pc = "begin" ->
            IF f.op = "create" THEN {[NoInput EXCEPT !.vim = vim] : vim \in Vims}
            ELSE {NoInput}
      [] f.pc \in {"listing", "listing2"} ->
            {[NoInput EXCEPT !.listing = listing] : listing \in Listings}
      [] f.pc = "request" ->
            {[NoInput EXCEPT !.http_code = http_code, !.resp = resp] :
                http_code \in CASE f.op = "delete" -> DeleteCodes
                                 [] f.op \in {"list_op", "get_op"} -> GetCodes
                                 [] f.op = "get_individual" -> {200}
                                 [] OTHER -> {202},
                resp \in NsAnswers}
      [] f.pc = "waiting" ->
            IF f.session.fetches < MaxPolls THEN PollAnswers ELSE {}
      [] f.pc \in {"sleeping", "format", "assign", "send"} -> {NoInput}
      [] OTHER -> {}

(* Two threads call the methods of one Ns object. The calls of thread a
   are traced; thread b runs the same code untraced. *)
NsThreads == {"a", "b"}

(* The arguments of the calls of the untraced thread. What they select
   (the filter and the query string of its own requests, whether it stays
   in the call for a wait session) is nothing the object keeps, so one
   choice for each method gives every effect its calls have on the
   object. *)
UntracedArgs ==
    [ list           |-> <<PyNone>>,
      get            |-> <<"ns1">>,
      get_individual |-> <<"ns1">>,
      delete         |-> <<"ns1", FALSE, FALSE>>,
      create         |-> <<"nsd1", "ns1", "vim1", FALSE>>,
      list_op        |-> <<"ns1">>,
      get_op         |-> <<"op1">>,
      exec_op        |-> <<"ns1", "action", FALSE>>,
      scale_vnf      |-> <<"ns1", "1", FALSE>>,
      create_alarm   |-> <<"al1">>,
      delete_alarm   |-> <<"al1">>,
      export_metric  |-> <<"cpu">>,
      get_field      |-> <<"ns1", "name">> ]

NsInit == ws = [self |-> Ns__init__, a |-> Frame(TRUE), b |-> Frame(FALSE)]

(* The frames from which thread who takes a step of a call of method op:
   the frame at the entry of a new call when the thread is idle, the
   frame of its running call when that is a call of op. *)
Frames(who, op, argss) ==
    IF ws[who].pc = "idle"
    THEN {Call(ws[who], op, args) :
             args \in IF ws[who].traced THEN argss ELSE {UntracedArgs[op]}}
    ELSE IF ws[who].op = op THEN {ws[who]}
    ELSE {}

(* The step of thread who changes the object and the frame of who. *)
Land(who, r) == ws' = [ws EXCEPT !.self = r.self, ![who] = r.frame]

NsList ==
    \E who \in NsThreads :
        \E f \in Frames(who, "list", {<<filter>> : filter \in Filters}) :
            \E in \in InputsAt(f) : Land(who, Ns_list(ws.self, f, in))

NsGet ==
    \E who \in NsThreads :
        \E f \in Frames(who, "get", {<<name>> : name \in NsNames \cup NsIds}) :
            \E in \in InputsAt(f) : Land(who, Ns_get(ws.self, f, in))

NsGetIndividual ==
    \E who \in NsThreads :
        \E f \in Frames(who, "get_individual",
                        {<<name>> : name \in NsNames \cup NsIds}) :
            \E in \in InputsAt(f) : Land(who, Ns_get_individual(ws.self, f, in))

NsDelete ==
    \E who \in NsThreads :
        \E f \in Frames(who, "delete",
                        {<<name, force, wait>> :
                            name \in NsNames, force \in BOOLEAN, wait \in BOOLEAN}) :
            \E in \in InputsAt(f) : Land(who, Ns_delete(ws.self, f, in))

NsCreate ==
    \E who \in NsThreads :
        \E f \in Frames(who, "create",
                        {<<"nsd1", nsr_name, "vim1", wait>> :
                            nsr_name \in NsNames, wait \in BOOLEAN}) :
            \E in \in InputsAt(f) : Land(who, Ns_create(ws.self, f, in))

NsListOp ==
    \E who \in NsThreads :
        \E f \in Frames(who, "list_op", {<<name>> : name \in NsNames}) :
            \E in \in InputsAt(f) : Land(who, Ns_list_op(ws.self, f, in))

NsGetOp ==
    \E who \in NsThreads :
        \E f \in Frames(who, "get_op", {<<operationId>> : operationId \in OpIds}) :
            \E in \in InputsAt(f) : Land(who, Ns_get_op(ws.self, f, in))

NsExecOp ==
    \E who \in NsThreads :
        \E f \in Frames(who, "exec_op",
                        {<<name, "action", wait>> : name \in NsNames, wait \in BOOLEAN}) :
            \E in \in InputsAt(f) : Land(who, Ns_exec_op(ws.self, f, in))

NsScaleVnf ==
    \E who \in NsThreads :
        \E f \in Frames(who, "scale_vnf",
                        {<<name, "1", wait>> : name \in NsNames, wait \in BOOLEAN}) :
            \E in \in InputsAt(f) : Land(who, Ns_scale_vnf(ws.self, f, in))

AlarmNames == {"al1"}

MetricNames == {"cpu"}

FieldNames == {"name", "nsd-id"}

NsCreateAlarm ==
    \E who \in NsThreads :
        \E f \in Frames(who, "create_alarm", {<<alarm>> : alarm \in AlarmNames}) :
            \E in \in InputsAt(f) : Land(who, Ns_create_alarm(ws.self, f, in))

NsDeleteAlarm ==
    \E who \in NsThreads :
        \E f \in Frames(who, "delete_alarm", {<<name>> : name \in AlarmNames}) :
            \E in \in InputsAt(f) : Land(who, Ns_delete_alarm(ws.self, f, in))

NsExportMetric ==
    \E who \in NsThreads :
        \E f \in Frames(who, "export_metric", {<<metric>> : metric \in MetricNames}) :
            \E in \in InputsAt(f) : Land(who, Ns_export_metric(ws.self, f, in))

NsGetField ==
    \E who \in NsThreads :
        \E f \in Frames(who, "get_field",
                        {<<ns_name, field>> : ns_name \in NsNames, field \in FieldNames}) :
            \E in \in InputsAt(f) : Land(who, Ns_get_field(ws.self, f, in))

NsNext ==
    \/ NsList
    \/ NsGet
    \/ NsGetIndividual
    \/ NsDelete
    \/ NsCreate
    \/ NsListOp
    \/ NsGetOp
    \/ NsExecOp
    \/ NsScaleVnf
    \/ NsCreateAlarm
    \/ NsDeleteAlarm
    \/ NsExportMetric
    \/ NsGetField

NsSpec == NsInit /\ [][NsNext]_vars

(* ------------------------------------------------------------------ *)
(* Properties                                                         *)
(* ------------------------------------------------------------------ *)
(* The session runs under the fairness of a sequential program: a step
   that can be taken is taken. *)
FairSpec == Spec /\ WF_vars(Next)

Rank(pc) ==
    CASE pc = "timeout_check" -> 8
      [] pc = "fetch"         -> 6
      [] pc = "check"         -> 5
      [] pc = "classify"      -> 4
      [] pc = "report"        -> 3
      [] pc = "decide"        -> 2
      [] pc = "except"        -> 1
      [] OTHER                -> 0

(* A variant of the session: it decreases with every step. *)
Measure == 9 * ws.time_left + Rank(ws.pc)

AdminKinds == {"SDNC", "VIM", "WIM"}

(* The cycle under way was answered with a code that is neither accepted
   nor, in a delete session, 404. *)
BadCode ==
    /\ ws.fetches >= 1
    /\ ws.http_code \notin AcceptedCodes
    /\ ~(ws.deleteFlag /\ ws.http_code = 404)

(* The body of the cycle under way was decoded (it is empty or JSON). *)
Decoded == ws.resp_unicode = <<>> \/ JsonLoads(ws.resp_unicode).ok

(* The cycle under way was answered with an accepted code and a payload
   that is empty or has no state member for the kind. *)
NoState ==
    /\ ws.fetches >= 1
    /\ ws.http_code \in AcceptedCodes
    /\ Decoded
    /\ \/ ~Truthy(ws.resp)
       \/ ~Truthy(_get_operational_state(ws.resp, ws.entity_label))

(* No fetch, sleep or progress line in the step taken. *)
NoPollingStep ==
    /\ ws'.fetches = ws.fetches
    /\ ws'.sleeps = ws.sleeps
    /\ ws'.stderr = ws.stderr

(* C1: for every timeout T >= 1, kind, delete flag and sequence of fetch
   responses the call terminates after at most T fetches: a fetch is only
   made with a positive remaining budget, which is T minus the fetches made
   so far; every step decreases a variant that is bounded below; the budget
   strictly decreases on a cycle that does not end the call; and the call
   never stops before it has returned or raised. *)
C1_WaitTerminates ==
    /\ [](ws.fetches <= ws.timeout /\ Measure >= 0)
    /\ [](ws.pc = "fetch" =>
            ws.time_left >= 1 /\ ws.time_left = ws.timeout - ws.fetches)
    /\ [](Terminated \/ ENABLED Next)
    /\ [][Measure' < Measure /\ ws'.time_left <= ws.time_left]_vars
    /\ [][ws.pc = "decide" /\ ws'.pc # "returned" =>
            ws'.time_left < ws.time_left]_vars

C1_Witness ==
    /\ ws.pc = "raised"
    /\ ws.timeout >= 3
    /\ ws.fetches = ws.timeout
    /\ ws.raised = ClientException(TimeoutMessage(ws.timeout))

(* C2: when every fetch is answered with an accepted code and a pending
   payload, the call never returns, and it raises the timeout error after
   exactly T fetches and T sleeps; the error carries the requested T. *)
C2_PendingTimesOut ==
    (ws.always.pending /\ ws.fetches >= 1) =>
        /\ ws.pc # "returned"
        /\ ws.fetches <= ws.timeout
        /\ ws.sleeps <= ws.timeout
        /\ ws.pc \in {"except", "raised"} =>
              /\ ws.raised = ClientException(TimeoutMessage(ws.timeout))
              /\ ws.raised.message =
                    <<"operation timeout, waited for ">> \o IntStr(ws.timeout)
                    \o <<" seconds">>
              /\ ws.fetches = ws.timeout
              /\ ws.sleeps = ws.timeout
        /\ ws.pc = "raised" => Contains(ws.exc.message, TimeoutMessage(ws.timeout))

C2_Witness ==
    /\ ws.always.pending
    /\ ws.pc = "raised"
    /\ ws.timeout = 2
    /\ ws.fetches = 2
    /\ ws.sleeps = 2

(* C3: a normal return happens only on a delete cycle answered with 404, or
   on a cycle with an accepted code whose payload was classified finished;
   never on a cycle whose payload was classified pending or malformed. *)
C3_ReturnMeansTerminal ==
    ws.pc = "returned" =>
        /\ \/ ws.deleteFlag /\ ws.http_code = 404 /\ ~ws.classified
           \/ /\ ws.http_code \in AcceptedCodes
              /\ ws.classified
              /\ ws.op_status = 0
              /\ _get_operational_state(ws.resp, ws.entity_label).s
                    \in _get_finished_states(ws.entity_label)
        /\ ws.classified => ws.op_status = 0

C3_Witness ==
    /\ ws.pc = "returned"
    /\ ws.classified
    /\ ws.op_status = 0
    /\ ws.fetches >= 2

(* A non-delete cycle with an accepted code and a finished payload. *)
FinishedCycle ==
    /\ ~ws.deleteFlag
    /\ ws.classified
    /\ ws.http_code \in AcceptedCodes
    /\ ws.op_status = 0

(* C4: in a non-delete session a cycle with an accepted code and a finished
   payload returns on that cycle, with no further fetch and no sleep, also
   when it is the cycle on which the budget would run out. *)
C4_FinishedReturnsSameCycle ==
    /\ [](FinishedCycle =>
            /\ ws.pc \in {"report", "decide", "returned"}
            /\ ws.time_to_return
            /\ ws.sleeps = ws.fetches - 1)
    /\ [][FinishedCycle =>
            /\ ws'.fetches = ws.fetches
            /\ ws'.sleeps = ws.sleeps
            /\ ws'.time_left = ws.time_left
            /\ ws.pc = "decide" => ws'.pc = "returned"]_vars

C4_Witness ==
    /\ FinishedCycle
    /\ ws.pc = "returned"
    /\ ws.timeout = 1
    /\ ws.fetches = 1
    /\ ws.sleeps = 0

(* C5 (as claimed): in a delete session a cycle answered with 404 returns
   normally on that cycle whatever the body holds, without classifying the
   payload, reporting "Deleted"; on the first cycle that is one fetch and
   no sleep. *)
C5_Delete404Returns ==
    (ws.deleteFlag /\ ws.fetches >= 1 /\ ws.http_code = 404) =>
        /\ ws.pc \in {"check", "classify", "report", "decide", "returned"}
        /\ ~ws.classified
        /\ ws.sleeps = ws.fetches - 1
        /\ ws.pc \in {"decide", "returned"} =>
              ws.new_detailed_status = PyString("Deleted")

(* A delete session of a kind whose finished states include ERROR, every
   fetch so far answered with an accepted code and the state ERROR. *)
DeleteAlwaysError ==
    /\ ws.deleteFlag
    /\ ws.entity_label \in AdminKinds
    /\ ws.fetches >= 1
    /\ ws.always.error

(* C6 (as claimed): such a session returns having decremented the
   delete-retry budget exactly 3 times. *)
C6_ThreeDecrements ==
    (DeleteAlwaysError /\ ws.pc = "returned") =>
        ws.delete_attempts_left = MAX_DELETE_ATTEMPTS - 3

(* C6 (amended): with a time budget of at least MAX_DELETE_ATTEMPTS + 1 such
   a session does not raise; it returns on cycle MAX_DELETE_ATTEMPTS + 1
   having decremented the delete-retry budget MAX_DELETE_ATTEMPTS + 1 times
   (once for each absorbed ERROR and once on the returning cycle), so the
   budget is then -1. *)
C6_FourDecrements ==
    DeleteAlwaysError =>
        /\ ws.fetches <= MAX_DELETE_ATTEMPTS + 1
        /\ ws.timeout >= MAX_DELETE_ATTEMPTS + 1 => ws.pc \notin {"except", "raised"}
        /\ ws.pc = "returned" =>
              /\ ws.fetches = MAX_DELETE_ATTEMPTS + 1
              /\ ws.sleeps = MAX_DELETE_ATTEMPTS
              /\ MAX_DELETE_ATTEMPTS - ws.delete_attempts_left
                    = MAX_DELETE_ATTEMPTS + 1
              /\ ws.delete_attempts_left = -1

C6_Witness ==
    /\ DeleteAlwaysError
    /\ ws.entity_label = "VIM"
    /\ ws.pc = "returned"

(* C7: a cycle answered with a code outside 200, 201, 202, 204 (and, in a
   delete session, other than 404) raises on that cycle: the payload is not
   classified, no line is written, no sleep and no fetch follow. 404 in a
   non-delete session is such a code. *)
C7_BadCodeRaises ==
    /\ [](BadCode =>
            /\ ws.pc \in {"check", "except", "raised"}
            /\ ~ws.classified
            /\ ~ws.emitted
            /\ ws.sleeps = ws.fetches - 1)
    /\ [][BadCode => NoPollingStep /\ ws'.pc \in {"except", "raised"}]_vars

C7_Witness ==
    /\ ~ws.deleteFlag
    /\ ws.http_code = 404
    /\ ws.fetches = 2
    /\ ws.pc = "raised"
    /\ ws.raised = ClientException(ProtocolMessage(ws.resp))

(* C8 (as claimed): the error raised for a cycle answered with a code that
   is not accepted is the protocol error, and its message contains the raw
   body text, whatever that text is; on the first cycle no sleep has been
   made. *)
C8_ProtocolErrorCarriesBody ==
    (BadCode /\ ws.pc = "raised") =>
        /\ ws.raised.type = "ClientException"
        /\ Contains(ws.raised.message, ws.resp_unicode)
        /\ Contains(ws.exc.message, ws.resp_unicode)
        /\ ws.fetches = 1 => ws.sleeps = 0

(* C9: a cycle with an accepted code whose payload is empty or has no state
   member for the kind raises the unexpected-response error on that cycle:
   no line is written, no sleep and no fetch follow; so a cycle with an
   accepted code never returns or polls on without a state value. *)
C9_MalformedRaises ==
    /\ [](NoState =>
            /\ ws.pc \in {"check", "classify", "except", "raised"}
            /\ ~ws.emitted
            /\ ws.sleeps = ws.fetches - 1
            /\ ws.pc \in {"except", "raised"} =>
                  /\ ws.raised = ClientException(MalformedMessage(ws.resp))
                  /\ Contains(ws.raised.message,
                              <<"unexpected response from server - ">>
                              \o PyStr(ws.resp)))
    /\ [][NoState => NoPollingStep
                     /\ ws'.pc \in {"classify", "except", "raised"}]_vars
    /\ [](ws.http_code \in AcceptedCodes
            /\ ws.pc \in {"report", "decide", "returned", "timeout_check"}
          => Truthy(_get_operational_state(ws.resp, ws.entity_label)))

C9_Witness ==
    /\ NoState
    /\ ws.entity_label = "NS"
    /\ ws.http_code = 200
    /\ ws.resp_unicode = <<"{", "}">>
    /\ ws.pc = "raised"

(* The three fatal errors of the session. *)
FatalErrors ==
    { ClientException(ProtocolMessage(ws.resp)),
      ClientException(MalformedMessage(ws.resp)),
      ClientException(TimeoutMessage(ws.timeout)) }

(* C10: a protocol, malformed-response or timeout error leaves the call
   wrapped exactly once, in a message that names the kind and embeds the
   original message; once it is raised there is no fetch, no sleep and no
   progress line. *)
C10_FatalWrappedOnce ==
    /\ [](ws.wraps <= 1)
    /\ [](ws.pc = "except" => ws.raised \in FatalErrors /\ ws.exc = ws.raised)
    /\ [](ws.pc = "raised" /\ ws.raised.type = "ClientException" =>
            /\ ws.raised \in FatalErrors
            /\ ws.wraps = 1
            /\ ws.exc.type = "ClientException"
            /\ ws.exc.message =
                  <<"Operation failed for ", ws.entity_label, ":\nerror:\n">>
                  \o ws.raised.message
            /\ Contains(ws.exc.message, <<ws.entity_label>>)
            /\ Contains(ws.exc.message, ws.raised.message))
    /\ [][ws.pc \in {"except", "raised"} =>
            NoPollingStep /\ ws'.pc = "raised"]_vars

C10_Witness ==
    /\ ws.pc = "raised"
    /\ ws.wraps = 1
    /\ ws.raised = ClientException(MalformedMessage(ws.resp))
    /\ ws.entity_label = "WIM"

(* C11 (as claimed): whatever error ends the call, be it a protocol,
   malformed-response or timeout error or a failure while decoding the
   body, it leaves wrapped once in the message that names the kind and
   embeds the text of the original error. *)
C11_EveryErrorWrapped ==
    ws.pc = "raised" =>
        /\ ws.wraps = 1
        /\ ws.exc.type = "ClientException"
        /\ ws.exc.message =
              <<"Operation failed for ", ws.entity_label, ":\nerror:\n">>
              \o ws.raised.message

(* The progress line that reports the value v. *)
ProgressLine(v) == <<"detailed-status: ", v.s, "\n">>

(* C12: a progress line is written on a cycle iff the detailed-status
   computed for the cycle differs from the last reported value (at first
   none), and the last reported value changes only with such a line; so no
   two consecutive lines carry the same value, the last reported value is
   the value of the last line, and a delete cycle answered with 404 writes
   "Deleted" only if the last reported value was not "Deleted" already. *)
C12_ReportOnChangeOnly ==
    /\ [](\A i \in 1..(Len(ws.stderr) - 1) : ws.stderr[i] # ws.stderr[i + 1])
    /\ [](IF ws.stderr = <<>> THEN ws.detailed_status = PyNone
          ELSE /\ ws.detailed_status.t = "str"
               /\ ws.stderr[Len(ws.stderr)] = ProgressLine(ws.detailed_status))
    /\ [][ws.pc = "report" =>
            /\ ws'.new_detailed_status.t = "str"
            /\ ws'.emitted <=> ws'.new_detailed_status # ws.detailed_status
            /\ IF ws'.new_detailed_status # ws.detailed_status
               THEN /\ ws'.stderr =
                          Append(ws.stderr, ProgressLine(ws'.new_detailed_status))
                    /\ ws'.detailed_status = ws'.new_detailed_status
               ELSE /\ ws'.stderr = ws.stderr
                    /\ ws'.detailed_status = ws.detailed_status]_vars
    /\ [][ws.pc # "report" =>
            /\ ws'.stderr = ws.stderr
            /\ ws'.detailed_status = ws.detailed_status]_vars
    /\ [][ws.pc = "report" /\ ws.deleteFlag /\ ws.http_code = 404 =>
            /\ ws'.new_detailed_status = PyString("Deleted")
            /\ ws'.emitted <=> ws.detailed_status # PyString("Deleted")]_vars

C12_Witness ==
    /\ ws.deleteFlag
    /\ ws.http_code = 404
    /\ ws.pc = "returned"
    /\ ~ws.emitted
    /\ ws.detailed_status = PyString("Deleted")
    /\ ws.stderr = <<ProgressLine(PyString("Deleted"))>>
    /\ ws.fetches = 3

(* The state member of the payload of the cycle under way is ERROR. *)
StateIsError ==
    /\ Truthy(ws.resp)
    /\ ws.resp.t = "dict"
    /\ _get_operational_state(ws.resp, ws.entity_label) = PyString("ERROR")

(* C13 (as claimed): in a delete session the delete-retry budget decreases
   on a cycle only if the payload of that cycle reports the state ERROR; a
   finished payload without an error state leaves it unchanged. *)
C13_DecreaseOnlyOnError ==
    [][ws'.delete_attempts_left < ws.delete_attempts_left =>
          ws.deleteFlag /\ StateIsError]_vars

(* C13 (amended): the delete-retry budget changes only in a delete
   session, by a decrement of one, on a cycle whose payload is classified
   finished, with an error state or without; every such cycle decrements
   it, and a cycle whose payload is pending or that is answered with 404
   leaves it unchanged. *)
C13_DecreaseOnFinished ==
    /\ [][ws'.delete_attempts_left # ws.delete_attempts_left =>
            /\ ws.pc = "classify"
            /\ ws.deleteFlag
            /\ ws.http_code # 404
            /\ ws'.classified
            /\ ws'.op_status = 0
            /\ ws'.delete_attempts_left = ws.delete_attempts_left - 1]_vars
    /\ [][ws.pc = "classify" /\ ws.deleteFlag /\ ws'.classified
            /\ ws'.op_status = 0 =>
            ws'.delete_attempts_left = ws.delete_attempts_left - 1]_vars
    /\ [](~ws.deleteFlag => ws.delete_attempts_left = MAX_DELETE_ATTEMPTS)

C13_Witness ==
    /\ ws.deleteFlag
    /\ ws.pc = "report"
    /\ ws.classified
    /\ ws.op_status = 0
    /\ ~StateIsError
    /\ ws.fetches = 1
    /\ ws.delete_attempts_left = MAX_DELETE_ATTEMPTS - 1

(* C14: for a kind other than NS and NSI the payload is classified
   finished iff _admin.operationalState is ENABLED or ERROR, pending for
   any other non-empty state, and malformed when the payload is empty or
   _admin or operationalState is absent. *)
C14_ClassifyOtherKinds ==
    (ws.classified /\ ws.entity_label \notin {"NS", "NSI"}) =>
        /\ \A st \in WideAdminStates, ds \in DetailedStatuses :
              ws.resp_unicode = AdminBody(st, ds) =>
                  /\ ws.op_status = 0 <=> st \in {"ENABLED", "ERROR"}
                  /\ st \notin {Absent, "", "ENABLED", "ERROR"} => ws.op_status = 1
                  /\ st = Absent => ws.op_status = -1
        /\ \A st \in WideNsStates, ds \in DetailedStatuses :
              ws.resp_unicode = NsBody(st, ds) => ws.op_status = -1
        /\ ws.resp_unicode = EmptyBody => ws.op_status = -1
        /\ ws.op_status \in {-1, 0, 1}

C14_Witness ==
    /\ ws.classified
    /\ ws.entity_label = "SDNC"
    /\ ws.resp_unicode = AdminBody("DISABLED", Absent)
    /\ ws.op_status = 1
    /\ ws.pc = "report"

(* C15: for the kinds NS and NSI the payload is classified finished iff
   operationState is COMPLETED, PARTIALLY_COMPLETED, FAILED_TEMP or FAILED,
   pending for PROCESSING, ROLLING_BACK and ROLLED_BACK, and malformed when
   operationState is absent. *)
C15_ClassifyNsKinds ==
    (ws.classified /\ ws.entity_label \in {"NS", "NSI"}) =>
        /\ \A st \in WideNsStates, ds \in DetailedStatuses :
              ws.resp_unicode = NsBody(st, ds) =>
                  /\ ws.op_status = 0 <=>
                        st \in {"COMPLETED", "PARTIALLY_COMPLETED", "FAILED_TEMP",
                                "FAILED"}
                  /\ st \in {"PROCESSING", "ROLLING_BACK", "ROLLED_BACK"} =>
                        ws.op_status = 1
                  /\ st = Absent => ws.op_status = -1
        /\ \A st \in WideAdminStates, ds \in DetailedStatuses :
              ws.resp_unicode = AdminBody(st, ds) => ws.op_status = -1
        /\ ws.op_status \in {-1, 0, 1}

C15_Witness ==
    /\ ws.classified
    /\ ws.entity_label = "NSI"
    /\ ws.resp_unicode = NsBody("FAILED_TEMP", Absent)
    /\ ws.op_status = 0
    /\ ws.pc = "report"

(* A classify step of a delete session that takes the branch of a
   finished payload which is not a delete error (lines 150-153). *)
FinishedNotDeleteError ==
    /\ ws.pc = "classify"
    /\ ws.deleteFlag
    /\ ws'.classified
    /\ ws'.op_status = 0
    /\ ~_has_delete_error(ws.resp, ws.entity_label, ws.deleteFlag,
                          ws.delete_attempts_left)

(* C16 as stated: in a delete session a finished payload that is not a
   delete error makes the session return only if the budget was already
   decremented, that is only if an error-then-retry cycle occurred before,
   and the budget is decremented either way. *)
C16_ReturnOnlyAfterErrorRetry ==
    [][FinishedNotDeleteError =>
          /\ ws'.time_to_return =>
                /\ ws.delete_attempts_left < MAX_DELETE_ATTEMPTS
                /\ ws.error_retries >= 1
          /\ ws'.delete_attempts_left = ws.delete_attempts_left - 1]_vars

(* C16 amended: in a delete session a finished payload that is not a
   delete error makes the session return exactly when the budget is
   already below its initial value, whatever kind of cycle lowered it,
   and the budget is decremented either way. *)
C16_ReturnOnlyAfterDecrement ==
    [][FinishedNotDeleteError =>
          /\ ws'.time_to_return <=>
                ws.delete_attempts_left < MAX_DELETE_ATTEMPTS
          /\ ws'.delete_attempts_left = ws.delete_attempts_left - 1
          /\ ws'.error_retries = ws.error_retries]_vars

C16_Witness ==
    /\ ws.pc = "returned"
    /\ ws.deleteFlag
    /\ ws.http_code # 404
    /\ ws.fetches = 2
    /\ ws.error_retries = 0
    /\ ws.op_status = 0
    /\ ws.delete_attempts_left = MAX_DELETE_ATTEMPTS - 2

(* A classify step of a delete session, for a kind whose finished states
   include ERROR, on a payload in state ERROR. *)
ClassifiesDeleteError ==
    /\ ws.pc = "classify"
    /\ ws.deleteFlag
    /\ ws.entity_label \in AdminKinds
    /\ StateIsError
    /\ ws'.classified

(* C17: in a delete session for a kind whose finished states include
   ERROR, at most 3 ERROR observations are absorbed by polling on; a
   classified ERROR payload makes the session return exactly when the
   budget is 0 at the start of the cycle, and with budget left it only
   lowers the budget and the session polls on. *)
C17_ErrorAbsorbedThreeTimes ==
    /\ [][ClassifiesDeleteError =>
            /\ ws'.pc = "report"
            /\ ws'.op_status = 0
            /\ ws'.delete_attempts_left = ws.delete_attempts_left - 1
            /\ ws'.time_to_return <=> ws.delete_attempts_left = 0
            /\ ws'.error_retries =
                   IF ws.delete_attempts_left = 0
                   THEN ws.error_retries ELSE ws.error_retries + 1]_vars
    /\ [](ws.error_retries <= MAX_DELETE_ATTEMPTS)
    /\ []((ws.pc = "classify" /\ ~ws.time_to_return) =>
             ws.delete_attempts_left \in 0..MAX_DELETE_ATTEMPTS)
    /\ []((/\ ws.pc = "returned" /\ ws.deleteFlag /\ ws.http_code # 404
           /\ ws.entity_label \in AdminKinds /\ StateIsError) =>
             /\ ws.delete_attempts_left = -1
             /\ ws.error_retries \in {MAX_DELETE_ATTEMPTS - 1, MAX_DELETE_ATTEMPTS})

C17_Witness ==
    /\ ws.pc = "returned"
    /\ ws.deleteFlag
    /\ ws.entity_label = "VIM"
    /\ StateIsError
    /\ ws.http_code # 404
    /\ ws.error_retries = MAX_DELETE_ATTEMPTS
    /\ ws.fetches = MAX_DELETE_ATTEMPTS + 1

(* C18: in a delete session where every fetch is answered with an accepted
   code and a payload finished in a state other than ERROR, the call never
   returns on the first cycle; it returns on the second cycle when T >= 2
   and raises the timeout error after the first cycle when T = 1. A delete
   session returns on its first cycle only on HTTP 404. *)
C18_DoneDeleteReturnsSecond ==
    /\ (ws.deleteFlag /\ ws.always.done /\ ws.fetches >= 1) =>
          /\ ws.fetches <= 2
          /\ ws.fetches = 1 => ~ws.time_to_return /\ ws.pc # "returned"
          /\ (ws.fetches = 2 /\ ws.classified) => ws.time_to_return
          /\ ws.pc = "returned" =>
                ws.fetches = 2 /\ ws.sleeps = 1 /\ ws.timeout >= 2
          /\ ws.timeout >= 2 => ws.pc \notin {"except", "raised"}
          /\ ws.timeout = 1 =>
                /\ ws.fetches = 1
                /\ ws.pc \in {"except", "raised"} =>
                      ws.raised = ClientException(TimeoutMessage(1))
                /\ ws.pc # "fetch"
    /\ (ws.deleteFlag /\ ws.pc = "returned" /\ ws.fetches = 1) =>
          ws.http_code = 404

C18_Witness ==
    /\ ws.deleteFlag
    /\ ws.always.done
    /\ ws.pc = "returned"
    /\ ws.fetches = 2
    /\ ws.timeout = 2
    /\ ws.entity_label = "NS"

(* The other case of C18: T = 1, the first payload is terminal and the
   call ends with the timeout error. *)
C18_TimeoutReached ==
    /\ ws.deleteFlag
    /\ ws.always.done
    /\ ws.pc = "raised"
    /\ ws.timeout = 1
    /\ ws.fetches = 1
    /\ ws.op_status = 0
    /\ Contains(ws.exc.message, TimeoutMessage(1))

(* C19: in a session that is not a deletion the retry budget keeps its
   initial value 3 and no ERROR cycle is retried; a finished payload in
   state ERROR marks the session finished on the cycle that observes it,
   which then returns without another fetch or sleep; HTTP 404 never
   leads to a normal return. *)
C19_NonDeleteNoRetry ==
    /\ [](~ws.deleteFlag =>
             /\ ws.delete_attempts_left = MAX_DELETE_ATTEMPTS
             /\ ws.error_retries = 0)
    /\ [][(/\ ~ws.deleteFlag /\ ws.pc = "classify"
           /\ ws.entity_label \in AdminKinds /\ StateIsError) =>
             /\ ws'.classified /\ ws'.op_status = 0
             /\ ws'.time_to_return
             /\ ws'.pc = "report"]_vars
    /\ [][(~ws.deleteFlag /\ ws.time_to_return) =>
             /\ ws'.fetches = ws.fetches /\ ws'.sleeps = ws.sleeps
             /\ ws'.pc \in {"decide", "returned"}]_vars
    /\ []((~ws.deleteFlag /\ ws.http_code = 404) =>
             /\ ~ws.time_to_return
             /\ ws.pc \in {"check", "except", "raised"})

C19_Witness ==
    /\ ~ws.deleteFlag
    /\ ws.pc = "returned"
    /\ ws.entity_label = "WIM"
    /\ StateIsError
    /\ ws.fetches = 2
    /\ ws.sleeps = 1
    /\ ws.delete_attempts_left = MAX_DELETE_ATTEMPTS

(* The 404 case of C19: the session ends with the protocol error. *)
C19_NotFoundRaises ==
    /\ ~ws.deleteFlag
    /\ ws.http_code = 404
    /\ ws.pc = "raised"
    /\ ws.raised = ClientException(ProtocolMessage(ws.resp))

(* C20: for the kinds NS and NSI no ERROR cycle is ever retried: an
   operationState of ERROR is classified pending and leaves the retry
   budget unchanged, and a delete session that reads it on every cycle
   never returns and ends with the timeout error. *)
C20_NsErrorIsPending ==
    /\ [](ws.entity_label \in {"NS", "NSI"} => ws.error_retries = 0)
    /\ [][(/\ ws.entity_label \in {"NS", "NSI"} /\ ws.pc = "classify"
           /\ StateIsError /\ ~ws.time_to_return) =>
             /\ ws'.classified /\ ws'.op_status = 1
             /\ ws'.delete_attempts_left = ws.delete_attempts_left
             /\ ~ws'.time_to_return
             /\ ws'.pc = "report"]_vars
    /\ []((/\ ws.deleteFlag /\ ws.entity_label \in {"NS", "NSI"}
           /\ ws.always.error /\ ws.fetches >= 1) =>
             /\ ws.pc # "returned"
             /\ ws.delete_attempts_left = MAX_DELETE_ATTEMPTS
             /\ ws.fetches <= ws.timeout
             /\ ws.pc \in {"except", "raised"} =>
                   /\ ws.raised = ClientException(TimeoutMessage(ws.timeout))
                   /\ ws.fetches = ws.timeout)

C20_Witness ==
    /\ ws.deleteFlag
    /\ ws.entity_label = "NSI"
    /\ ws.always.error
    /\ ws.pc = "raised"
    /\ ws.timeout = 3
    /\ ws.fetches = 3
    /\ ws.op_status = 1
    /\ Contains(ws.exc.message, TimeoutMessage(3))

(* The positions that may follow each position of a cycle. *)
Successors(pc) ==
    CASE pc = "fetch"         -> {"check", "raised"}
      [] pc = "check"         -> {"classify", "except"}
      [] pc = "classify"      -> {"report", "except"}
      [] pc = "report"        -> {"decide"}
      [] pc = "decide"        -> {"returned", "timeout_check"}
      [] pc = "timeout_check" -> {"fetch", "except"}
      [] pc = "except"        -> {"raised"}
      [] OTHER                -> {}

(* C21: every cycle makes one fetch and its steps follow the order fetch,
   status check, classify, report, then return or decrement-and-sleep
   followed by the timeout check; fetches minus sleeps is 0 or 1, the
   remaining time is T minus the sleeps made, and the timeout error is
   raised only by the timeout check that directly follows a sleep. *)
C21_CycleOrder ==
    /\ [][/\ ws'.pc \in Successors(ws.pc)
          /\ ws'.fetches = ws.fetches + (IF ws.pc = "fetch" THEN 1 ELSE 0)
          /\ ws'.sleeps = ws.sleeps
                 + (IF ws.pc = "decide" /\ ws'.pc = "timeout_check" THEN 1 ELSE 0)
          /\ ws'.classified # ws.classified =>
                \/ ws.pc = "classify" /\ ws'.classified
                \/ ws.pc = "fetch" /\ ~ws'.classified
          /\ ws'.stderr # ws.stderr => ws.pc = "report"
          /\ (ws'.raised = ClientException(TimeoutMessage(ws.timeout))
                /\ ws.raised = NoException) =>
                ws.pc = "timeout_check" /\ ws.fetches = ws.sleeps]_vars
    /\ [](ws.fetches - ws.sleeps \in {0, 1})
    /\ [](ws.fetches - ws.sleeps = 1 <=>
             ws.pc \in {"check", "classify", "report", "decide", "returned"}
             \/ (ws.pc \in {"except", "raised"}
                   /\ ws.raised # ClientException(TimeoutMessage(ws.timeout))))
    /\ [](ws.time_left = ws.timeout - ws.sleeps * POLLING_TIME_INTERVAL)
    /\ [](ws.raised = ClientException(TimeoutMessage(ws.timeout)) =>
             ws.fetches = ws.sleeps /\ ws.time_left = 0)

C21_Witness ==
    /\ ws.pc = "raised"
    /\ ws.raised = ClientException(TimeoutMessage(ws.timeout))
    /\ ws.timeout = 3
    /\ ws.fetches = 3
    /\ ws.sleeps = 3
    /\ ws.time_left = 0

(* C22: on every input wait_for_status passes, _has_delete_error returns
   true only when the delete flag is true, the count of retries left is
   greater than zero and the state of the payload for the kind is ERROR,
   and false for every other input, a count of zero included. The count
   passed is never below zero (C24_BudgetRange), so the test of
   line 94 for a nonzero count is the test for a positive one. *)
C22_DeleteErrorNeedsBudget ==
    ws.pc = "done" =>
        (ws.result <=>
            /\ ws.deleteFlag
            /\ ws.delete_attempts_left > 0
            /\ _get_operational_state(ws.resp, ws.entity) = PyString("ERROR"))

(* A call that returns true: a deletion with one retry left whose payload
   is in state ERROR. *)
C22_Witness ==
    /\ ws.pc = "done"
    /\ ws.result
    /\ ws.deleteFlag
    /\ ws.delete_attempts_left = 1
    /\ ws.entity = "VIM"
    /\ ws.resp = JsonLoads(AdminBody("ERROR", Absent)).val

(* The value reported for a detailed-status field holding ds. *)
Reported(ds) ==
    IF ds = Absent \/ ds = "" THEN PyString("In progress") ELSE PyString(ds)

(* C23: the detailed-status reported on a cycle is "Deleted" once a
   deletion was confirmed by 404, whatever the payload; otherwise the
   detailed-status field of the payload (top level for NS/NSI, under
   _admin for the other kinds), and "In progress" when that field is absent
   or empty. The reported value is never absent or empty, and a first
   cycle that gets to the report writes one progress line. *)
C23_ReportedStatus ==
    /\ [][ws.pc = "report" =>
            /\ ws'.new_detailed_status.t = "str"
            /\ ws'.new_detailed_status.s \notin {"", Absent}
            /\ (ws.deleteFlag /\ ws.http_code = 404) =>
                  ws'.new_detailed_status = PyString("Deleted")
            /\ ~(ws.deleteFlag /\ ws.http_code = 404) =>
                  \A st \in NsStates \cup AdminStates,
                     ds \in DetailedStatuses \cup {""} :
                      /\ (ws.entity_label \in {"NS", "NSI"}
                            /\ ws.resp_unicode = NsBody(st, ds)) =>
                            ws'.new_detailed_status = Reported(ds)
                      /\ (ws.entity_label \in AdminKinds
                            /\ ws.resp_unicode = AdminBody(st, ds)) =>
                            ws'.new_detailed_status = Reported(ds)]_vars
    /\ [](\A i \in 1..Len(ws.stderr) :
             /\ Len(ws.stderr[i]) = 3
             /\ ws.stderr[i][2] \in {"In progress", "Deleted"})
    /\ []((ws.fetches = 1 /\ ws.pc \in {"decide", "timeout_check", "returned"}) =>
             ws.emitted /\ Len(ws.stderr) = 1)
    /\ []((ws.fetches >= 2 \/ ws.pc = "returned") => Len(ws.stderr) >= 1)

C23_Witness ==
    /\ ws.deleteFlag
    /\ ws.http_code = 404
    /\ ws.resp_unicode = AdminBody("ERROR", Absent)
    /\ ws.pc = "returned"
    /\ ws.fetches = 2
    /\ ws.stderr = << ProgressLine(PyString("In progress")),
                      ProgressLine(PyString("Deleted")) >>

(* The payload case of C23: the field under _admin is reported. *)
C23_FieldReported ==
    /\ ~ws.deleteFlag
    /\ ws.entity_label = "SDNC"
    /\ ws.resp_unicode = AdminBody("PROCESSING", "Deleted")
    /\ ws.pc = "decide"
    /\ ws.fetches = 1
    /\ ws.stderr = << ProgressLine(PyString("Deleted")) >>

(* C24: the delete-retry budget always lies between -1 and 3; it lies
   between 0 and 3 whenever a fetch is about to be made; it is -1 only in
   a cycle that is marked to return and in the return that follows; it
   only ever decreases by one, so at most 4 times in a session. *)
C24_BudgetRange ==
    /\ [](ws.delete_attempts_left \in -1..MAX_DELETE_ATTEMPTS)
    /\ [](ws.pc = "fetch" => ws.delete_attempts_left \in 0..MAX_DELETE_ATTEMPTS)
    /\ [](ws.delete_attempts_left = -1 =>
             /\ ws.time_to_return
             /\ ws.pc \in {"report", "decide", "returned"}
             /\ ws.deleteFlag)
    /\ [][ws'.delete_attempts_left # ws.delete_attempts_left =>
             /\ ws'.delete_attempts_left = ws.delete_attempts_left - 1
             /\ ws.pc = "classify"
             /\ MAX_DELETE_ATTEMPTS - ws'.delete_attempts_left <= 4]_vars

C24_Witness ==
    /\ ws.pc = "returned"
    /\ ws.delete_attempts_left = -1
    /\ ws.error_retries = MAX_DELETE_ATTEMPTS - 1
    /\ ws.fetches = 4
    /\ ws.entity_label = "SDNC"

(* The endpoint every NS operation is to start from. *)
NsInstancesContent == <<"/nslcm", "/v1", "/ns_instances_content">>

(* C25 as stated: after any sequence of operations on one Ns object the
   base endpoint is still /nslcm/v1/ns_instances_content, and list, get,
   get_individual and delete send their requests there (the listing and
   the request of the method itself, the first two of a call). *)
C25_BaseEndpointKept ==
    /\ ws.self._apiBase = NsInstancesContent
    /\ ws.a.op \in {"list", "get", "get_individual", "delete"} =>
          \A i \in 1..Len(ws.a.requests) :
              i <= 2 => SubSeq(ws.a.requests[i].endpoint, 1, 3) = NsInstancesContent

(* The state that refutes C25: a listing requested from the endpoint of
   the operation occurrences. *)
C25_ListFromOtherResource ==
    /\ ws.a.op = "list"
    /\ ws.a.requests = << [method |-> "GET",
                           endpoint |-> <<"/nslcm", "/v1", "/ns_lcm_op_occs">>] >>

(* C26: Ns.delete starts a wait session only when the DELETE request is
   answered with 202, waiting was asked for and the body is not empty;
   the session is a delete session for NS with time budget 3600 that
   polls the endpoint of the operation occurrences for the _id of the
   answer. On 202 without wait or with an empty body, and on 204, the
   call returns without a session and without a poll; on any other code
   it raises ClientException without a session. *)
C26_DeleteWaits ==
    ws.a.op = "delete" =>
        LET f         == ws.a
            http_code == f.answer.http_code
            resp      == f.answer.resp
            wait      == f.args[3]
            answered  == http_code # 0
            ended     == f.pc = "idle"
            deletes   == {i \in 1..Len(f.requests) : f.requests[i].method = "DELETE"}
            polls     == {i \in 1..Len(f.requests) : \E d \in deletes : i > d}
        IN
        /\ Len(f.waits) <= 1
        /\ Cardinality(deletes) <= 1
        /\ answered => deletes # {}
        /\ f.waits # <<>> =>
              /\ answered /\ http_code = 202 /\ wait /\ resp # <<>>
              /\ polls # {}
              /\ f.waits[1].entity_label = "NS"
              /\ f.waits[1].deleteFlag
              /\ f.waits[1].timeout = 3600
              /\ f.waits[1].apiUrlStatus = <<"/nslcm", "/v1", "/ns_lcm_op_occs">>
              /\ \A op \in OpIds :
                    resp = JsonObject(<< <<"_id", op>> >>) =>
                        f.waits[1].entity_id = <<op>>
              /\ ~ended =>
                    /\ f.pc \in {"waiting", "sleeping"}
                    /\ f.session.entity_label = "NS"
                    /\ f.session.deleteFlag
                    /\ f.session.timeout = 3600
                    /\ f.session.fetches =
                          Cardinality(polls) - (IF f.pc = "waiting" THEN 1 ELSE 0)
                    /\ f.pc = "sleeping" <=> f.session.pc = "timeout_check"
        /\ \A i \in polls :
              /\ f.waits # <<>>
              /\ f.requests[i] =
                    [ method   |-> "GET",
                      endpoint |-> <<"/nslcm", "/v1", "/ns_lcm_op_occs", "/">>
                                   \o f.waits[1].entity_id ]
        /\ (answered /\ http_code = 202 /\ (~wait \/ resp = <<>>)) =>
              f.waits = <<>> /\ ended /\ f.outcome.kind = "returned"
        /\ (answered /\ http_code = 204) =>
              f.waits = <<>> /\ ended /\ f.outcome.kind = "returned"
        /\ (answered /\ http_code \notin {202, 204}) =>
              /\ f.waits = <<>>
              /\ ended
              /\ f.outcome.kind = "raised"
              /\ f.outcome.exc.type = "ClientException"
        /\ ~answered => f.waits = <<>>
        /\ (ended /\ ~answered) => f.outcome.kind = "raised"

C26_Witness ==
    /\ ws.a.op = "delete"
    /\ ws.a.pc = "idle"
    /\ ws.a.answer.http_code = 202
    /\ ws.a.args[3]
    /\ Len(ws.a.waits) = 1
    /\ ws.a.waits[1].entity_id = <<"op1">>
    /\ ws.a.waits[1].timeout = TIMEOUT_NS_OPERATION
    /\ Len(ws.a.requests) = 3
    /\ ws.a.requests[3].endpoint = <<"/nslcm", "/v1", "/ns_lcm_op_occs", "/", "op1">>
    /\ ws.a.outcome.kind = "returned"

(* The lines thread who wrote, in the order they stand in sys.stderr. *)
LinesOf(who) ==
    LET mine == SelectSeq(ws.stderr, LAMBDA x : x.who = who) IN
    [i \in 1..Len(mine) |-> mine[i].line]

(* What a session is expected to hold between two poll cycles, stated
   cycle by cycle from its own arguments and answers alone: the time
   budget, the delete-retry budget, the last reported status, whether it
   runs on, has returned or has raised, and the values it reported. *)
Expect0(timeout) ==
    [ time_left            |-> timeout,
      delete_attempts_left |-> 3,
      detailed_status      |-> PyNone,
      outcome              |-> "running",
      emitted              |-> <<>> ]

(* How each of PairAnswers reads to a session of the kind: the resource
   is gone, the operation is pending, it has finished, it has finished in
   state ERROR, or the payload has no state for the kind. *)
ExpectKind(entity_label, answer) ==
    IF answer.http_code = 404 THEN "gone"
    ELSE IF entity_label = "NS"
    THEN CASE answer.resp_unicode = NsBody("PROCESSING", Absent)  -> "pending"
           [] answer.resp_unicode = NsBody("COMPLETED", "Deleted") -> "finished"
           [] OTHER -> "malformed"
    ELSE CASE answer.resp_unicode = AdminBody("ERROR", Absent) -> "error"
           [] OTHER -> "malformed"

(* The value a cycle reports. *)
ExpectStatus(entity_label, answer) ==
    IF answer.http_code = 404 THEN PyString("Deleted")
    ELSE IF entity_label = "NS" /\ answer.resp_unicode = NsBody("COMPLETED", "Deleted")
    THEN PyString("Deleted")
    ELSE PyString("In progress")

(* A value is reported when it differs from the last one reported. *)
ExpectReport(e, status) ==
    IF status = e.detailed_status THEN e
    ELSE [e EXCEPT !.detailed_status = status, !.emitted = Append(@, status)]

(* A cycle that does not end the session costs one second; the session
   raises when none is left. *)
ExpectSleep(e) ==
    [e EXCEPT !.time_left = @ - 1,
              !.outcome = IF e.time_left - 1 <= 0 THEN "raised" ELSE "running"]

ExpectCycle(e, entity_label, deleteFlag, answer) ==
    LET kind   == ExpectKind(entity_label, answer)
        status == ExpectStatus(entity_label, answer) IN
    CASE e.outcome # "running" -> e
      [] kind = "gone" ->
            IF deleteFlag THEN [ExpectReport(e, status) EXCEPT !.outcome = "returned"]
            ELSE [e EXCEPT !.outcome = "raised"]
      [] kind = "malformed" -> [e EXCEPT !.outcome = "raised"]
      [] kind = "pending" -> ExpectSleep(ExpectReport(e, status))
      [] ~deleteFlag -> [ExpectReport(e, status) EXCEPT !.outcome = "returned"]
      [] kind = "error" /\ e.delete_attempts_left > 0 ->
            ExpectSleep(ExpectReport([e EXCEPT !.delete_attempts_left = @ - 1], status))
      [] e.delete_attempts_left < 3 ->
            [ExpectReport(e, status) EXCEPT !.delete_attempts_left = @ - 1,
                                            !.outcome = "returned"]
      [] OTHER ->
            ExpectSleep(ExpectReport([e EXCEPT !.delete_attempts_left = @ - 1], status))

RECURSIVE Expect(_, _, _, _)
Expect(e, entity_label, deleteFlag, answers) ==
    IF answers = <<>> THEN e
    ELSE Expect(ExpectCycle(e, entity_label, deleteFlag, Head(answers)),
                entity_label, deleteFlag, Tail(answers))

(* What the frame of a call holds of the same. *)
Held(f, lines) ==
    [ time_left            |-> f.time_left,
      delete_attempts_left |-> f.delete_attempts_left,
      detailed_status      |-> f.detailed_status,
      outcome              |-> IF f.pc \in {"returned", "raised"} THEN f.pc ELSE "running",
      emitted              |-> lines ]

(* C27: two sessions whose steps are interleaved in any order do not
   affect each other: whenever a session is between two cycles or has
   ended, its time budget, its delete-retry budget, its last reported
   status, its outcome and the values it reported are what its own
   arguments and its own answers give, whatever the other session did in
   between; and its lines stand in sys.stderr in the order it wrote
   them. *)
C27_SessionsIndependent ==
    \A who \in Sessions :
        LET f  == ws[who].frame
            e  == Expect(Expect0(f.timeout), f.entity_label, f.deleteFlag,
                         ws[who].answers) IN
        /\ Len(ws[who].answers) = f.fetches
        /\ LinesOf(who) = f.stderr
        /\ f.pc \in {"fetch", "returned", "raised"} =>
              Held(f, LinesOf(who)) =
                  [e EXCEPT !.emitted = [i \in 1..Len(e.emitted) |->
                                            ProgressLine(e.emitted[i])]]

C27_Witness ==
    /\ ws.a.frame.pc = "returned"
    /\ ws.b.frame.pc = "raised"
    /\ ws.a.frame.fetches = 2
    /\ ws.b.frame.fetches = 2
    /\ ws.a.frame.detailed_status = PyString("Deleted")
    /\ ws.b.frame.detailed_status = PyString("In progress")
    /\ Len(ws.stderr) = 3
    /\ ws.stderr[1].who = "a" /\ ws.stderr[2].who = "b" /\ ws.stderr[3].who = "a"

====
